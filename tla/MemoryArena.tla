---------------------------- MODULE MemoryArena ----------------------------
(***************************************************************************)
(* The page allocator of kernel/memory.rs and the boot code that gives it  *)
(* its memory, parse_memory_map of arch/x86_64/platform.c.  There are two  *)
(* arenas, for small and for large pages.  An arena is a set of free       *)
(* segments, ordered by base address in a red-black tree.                  *)
(***************************************************************************)
EXTENDS Integers, Sequences, FiniteSets

CONSTANTS PageSmall, PageLarge,  \* the page sizes
          AddrMod,               \* the number of addresses (2^64)
          MemoryMaps,            \* memory maps the boot loader may pass
          KernelEnd, InitrdEnd   \* memory below these is taken

ASSUME PageAssumption ==
    /\ PageSmall \in Nat \ {0} /\ PageLarge \in Nat \ {0} /\ AddrMod \in Nat \ {0}
    /\ PageLarge % PageSmall = 0
ASSUME MapAssumption ==
    /\ MemoryMaps \subseteq Seq([base: Nat, length: Nat, available: BOOLEAN])
    /\ KernelEnd \in Nat /\ InitrdEnd \in Nat

VARIABLES map,    \* the memory map of this boot
          todo,   \* its entries not yet parsed
          free,   \* free[k]: the segments of arena k
          used    \* used[k]: the base addresses of the pages of kind k in use

vars == <<map, todo, free, used>>

Kinds == {"small", "large"}
PageSize(k) == IF k = "small" THEN PageSmall ELSE PageLarge
Seg(base, size) == [base |-> base, size |-> size]
End(s) == s.base + s.size
-----------------------------------------------------------------------------
AlignDown(v, a) == v - (v % a)
AlignUp(v, a) == AlignDown(v + a - 1, a)

Larger(a, b) == IF a > b THEN a ELSE b
EntryEnd(e) == e.base + e.length

(* The entries parse_memory_map passes over ...                            *)
Skipped(e) == \/ ~e.available
              \/ EntryEnd(e) < KernelEnd
              \/ EntryEnd(e) < InitrdEnd

(* Faulty: the initrd is not kept out of the span.                         *)
SpanOfWithInitrd(e) ==
    LET base == Larger(e.base, KernelEnd)
    IN  Seg(AlignUp(base, PageSmall), AlignDown(EntryEnd(e) - base, PageSmall))

(* ... and the span it registers for another: what is above the kernel and *)
(* the initrd, its base rounded up and its length rounded down.            *)
SpanOf(e) ==
    LET base == Larger(e.base, Larger(KernelEnd, InitrdEnd))
    IN  Seg(AlignUp(base, PageSmall), AlignDown(EntryEnd(e) - base, PageSmall))

(* The memory map describes no address twice, and addresses are far below  *)
(* 2^64.  What is left of a region above the kernel and the initrd keeps   *)
(* a page and is not rounded past the region's end, as where that is a     *)
(* page border: parse_memory_map rounds base and length, never the end.    *)
ASSUME RegionAssumption ==
    \A m \in MemoryMaps : \A i, j \in DOMAIN m :
        /\ m[i].available /\ m[j].available
              => i = j \/ EntryEnd(m[i]) <= m[j].base \/ EntryEnd(m[j]) <= m[i].base
        /\ ~Skipped(m[i]) => /\ SpanOf(m[i]).size > 0
                             /\ End(SpanOf(m[i])) <= EntryEnd(m[i])
                             /\ EntryEnd(m[i]) + PageLarge <= AddrMod

(* memory_add_span: the large pages of the span to the large arena, what   *)
(* is before and after them to the small one.                              *)
SpanSegs(start, end) == {Seg(start, (end - start) % AddrMod)}
LargeStart(sp) == AlignUp(sp.base, PageLarge)
LargeEnd(sp) == AlignDown(End(sp), PageLarge)

SmallSegs(sp) ==
    (IF sp.base # LargeStart(sp) THEN SpanSegs(sp.base, LargeStart(sp)) ELSE {})
      \union
    (IF End(sp) # LargeEnd(sp) THEN SpanSegs(LargeEnd(sp), End(sp)) ELSE {})

LargeSegs(sp) ==
    IF LargeStart(sp) # LargeEnd(sp) THEN SpanSegs(LargeStart(sp), LargeEnd(sp)) ELSE {}

-----------------------------------------------------------------------------
(* MemoryArena::alloc looks at the first segment only.                     *)
Front(segs) == CHOOSE s \in segs : \A t \in segs : s.base <= t.base

CanAlloc(segs, size) == segs # {} /\ Front(segs).size >= size

(* Faulty: the segment is removed, whatever is left of it.                 *)
AfterAllocDropsRest(segs, size) == segs \ {Front(segs)}

(* Faulty: an exact fit stays in the tree.                                 *)
AfterAllocKeepsExactFit(segs, size) ==
    LET s == Front(segs)
    IN  IF s.size > size
        THEN (segs \ {s}) \union {Seg(s.base + size, s.size - size)}
        ELSE segs

(* ... and splits the page off its beginning, or takes all of it.          *)
AfterAlloc(segs, size) ==
    LET s == Front(segs)
    IN  (segs \ {s}) \union
        (IF s.size > size THEN {Seg(s.base + size, s.size - size)} ELSE {})

(* MemoryArena::free: coalesce with the segment that begins at the end of  *)
(* the page, then with the nearest one below it if that ends at the page.  *)
NextOf(segs, end) == {s \in segs : s.base = end}
PrevOf(segs, addr) ==
    {s \in segs : /\ s.base < addr
                  /\ End(s) = addr
                  /\ \A t \in segs : t.base < addr => t.base <= s.base}

AfterFree(segs, addr, size) ==
    LET next == NextOf(segs, addr + size)
        prev == PrevOf(segs, addr)
        base == IF prev = {} THEN addr ELSE (CHOOSE s \in prev : TRUE).base
        end  == IF next = {} THEN addr + size ELSE End(CHOOSE s \in next : TRUE)
    IN  (segs \ (next \union prev)) \union {Seg(base, end - base)}
-----------------------------------------------------------------------------
Init ==
    /\ map \in MemoryMaps /\ todo = map
    /\ free = [k \in Kinds |-> {}]
    /\ used = [k \in Kinds |-> {}]

(* One turn of parse_memory_map's loop.                                    *)
ParseEntry ==
    /\ todo # << >>
    /\ todo' = Tail(todo)
    /\ LET e == Head(todo)
           segs == [small |-> SmallSegs(SpanOf(e)), large |-> LargeSegs(SpanOf(e))]
       IN  free' = IF Skipped(e) THEN free
                   ELSE [k \in Kinds |-> free[k] \union segs[k]]
    /\ UNCHANGED <<map, used>>

(* memory_add_span assumes that a span has a border of a large page in it; *)
(* the model goes no further with one that has not.                        *)
Registered == {SpanOf(map[i]) : i \in {j \in DOMAIN map : ~Skipped(map[j])}}
Bordered == \A sp \in Registered : LargeStart(sp) <= LargeEnd(sp)

(* page_alloc_small and page_alloc_large; they return NULL, and change     *)
(* nothing, when the first segment is too small or missing.                *)
Alloc(k) ==
    /\ todo = << >> /\ Bordered
    /\ CanAlloc(free[k], PageSize(k))
    /\ used' = [used EXCEPT ![k] = @ \union {Front(free[k]).base}]
    /\ free' = [free EXCEPT ![k] = AfterAlloc(@, PageSize(k))]
    /\ UNCHANGED <<map, todo>>

(* page_free_small and page_free_large.                                    *)
Free(k, p) ==
    /\ p \in used[k]
    /\ used' = [used EXCEPT ![k] = @ \ {p}]
    /\ free' = [free EXCEPT ![k] = AfterFree(@, p, PageSize(k))]
    /\ UNCHANGED <<map, todo>>

Next == \/ ParseEntry
        \/ \E k \in Kinds : Alloc(k) \/ \E p \in used[k] : Free(k, p)

Spec == Init /\ [][Next]_vars
-----------------------------------------------------------------------------
(* All memory the allocator knows of: free segments and pages in use.      *)
Extents == UNION {free[k] \union {Seg(p, PageSize(k)) : p \in used[k]} : k \in Kinds}

Apart(s, t) == End(s) <= t.base \/ End(t) <= s.base

(* No memory is handed out twice: free segments and pages in use, of both  *)
(* arenas, are pairwise disjoint after any sequence of page_alloc and      *)
(* page_free with their splits and coalescings; and a page in use never    *)
(* has the address of a free segment.                                      *)
PagesDisjoint ==
    Bordered =>
        /\ \A s, t \in Extents : s = t \/ Apart(s, t)
        /\ \A k \in Kinds : \A p \in used[k] : \A j \in Kinds : \A s \in free[j] : s.base # p

(* Where two free segments may touch: memory_add_span has put them so.     *)
Seams == UNION {{sp.base, LargeStart(sp), LargeEnd(sp)} : sp \in Registered}

(* No memory is lost: every address of the registered spans is in a free   *)
(* segment or in a page in use; alloc, which looks at the first segment    *)
(* only, finds a page there if anything is free; and free coalesces.       *)
NoMemoryLost ==
    todo = << >> /\ Bordered =>
        /\ \A sp \in Registered : \A a \in sp.base..(End(sp) - 1) :
              \E s \in Extents : s.base <= a /\ a < End(s)
        /\ \A k \in Kinds : free[k] # {} => Front(free[k]).size >= PageSize(k)
        /\ \A k \in Kinds : \A s, t \in free[k] : End(s) = t.base => t.base \in Seams

(* "Register a memory span to the kernel arena.": where every span has a   *)
(* border of a large page in it, the allocator owns no address outside the *)
(* available regions or below the kernel's and the initrd's end, also once *)
(* free has coalesced across regions that touch.  Around a span without    *)
(* one, memory_add_span registers a segment that no region holds.          *)
InsideAvailableMemory ==
    todo = << >> =>
        IF Bordered
        THEN \A s \in Extents :
                /\ s.base >= KernelEnd /\ s.base >= InitrdEnd
                /\ \A a \in s.base..(End(s) - 1) : \E i \in DOMAIN map :
                      map[i].available /\ map[i].base <= a /\ a < EntryEnd(map[i])
        ELSE \E s \in Extents : \A i \in DOMAIN map :
                map[i].available /\ map[i].base <= s.base => End(s) > EntryEnd(map[i])

(* The memory of the pages in use.                                         *)
Held == UNION {{Seg(p, PageSize(k)) : p \in used[k]} : k \in Kinds}
PageAllocator == INSTANCE Allocator WITH held <- Held

(* The page that alloc would return now is clear of every page in use, of  *)
(* either size.                                                            *)
NextPageIsClear ==
    \A k \in Kinds : CanAlloc(free[k], PageSize(k)) =>
        \A s \in Held : PageAllocator!Clear(Seg(Front(free[k]).base, PageSize(k)), s)

(* The two arenas together are an allocator: page_alloc never returns      *)
(* memory of a page in use, be it of the other size or that page again,    *)
(* and page_free takes back its page and no other.  Kmem and VMSpace draw  *)
(* their pages from pools that rely on it.                                 *)
ImplementsAllocator == PageAllocator!AllocatorSpec /\ []NextPageIsClear
=============================================================================
