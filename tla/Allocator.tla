----------------------------- MODULE Allocator -----------------------------
(***************************************************************************)
(* What an allocator of memory promises, whatever it manages: page_alloc   *)
(* and page_free of the kernel, malloc and free of a process.  A block it  *)
(* hands out is not empty and meets no block that is in use, and a block   *)
(* stays in use until it is freed.  Every operation takes effect in one    *)
(* step; an allocation may also fail, which changes nothing.               *)
(***************************************************************************)
EXTENDS Integers

VARIABLE held   \* the blocks, [base, size], handed out and not yet freed

Clear(r, s) == r.base + r.size <= s.base \/ s.base + s.size <= r.base

AllocatorInit == held = {}

Take ==
    \E r \in held' :
        /\ r.base \in Nat /\ r.size \in Nat \ {0}
        /\ \A s \in held : Clear(r, s)
        /\ held' = held \union {r}

GiveBack == \E r \in held : held' = held \ {r}

AllocatorNext == Take \/ GiveBack

AllocatorSpec == AllocatorInit /\ [][AllocatorNext]_held
=============================================================================
