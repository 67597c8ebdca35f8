--------------------------- MODULE MCMemoryArena ---------------------------
(* MemoryArena for TLC: small pages of 2, large pages of 8 addresses.      *)
EXTENDS MemoryArena

Entry(base, end, available) == [base |-> base, length |-> end - base, available |-> available]

(* Low memory below the kernel, the region the kernel and the initrd are   *)
(* in, a reserved one and one around a large page border; a map with a     *)
(* region that has no such border; and one with two regions that touch.    *)
MCMemoryMaps ==
    {<<Entry(0, 5, TRUE), Entry(8, 30, TRUE), Entry(32, 34, FALSE), Entry(36, 43, TRUE)>>,
     <<Entry(8, 30, TRUE), Entry(34, 38, TRUE)>>,
     <<Entry(14, 24, TRUE), Entry(24, 33, TRUE)>>}
=============================================================================
