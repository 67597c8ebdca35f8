------------------------------ MODULE VMSpace ------------------------------
(***************************************************************************)
(* The address space of a process: its regions (kernel/vm.rs), the page    *)
(* tables behind them (mm/mmu.c, arch/x86_64/mmu.c) and the code that      *)
(* builds them up: process_spawn, the vmspace_alloc system call and the    *)
(* network driver's acquire.                                               *)
(*                                                                         *)
(* Addresses count small pages.  A page directory covers DirPages, a page  *)
(* table or a large page LargePages of them; the two levels above the page *)
(* directory are one.  No caller deallocates a region and no process ends: *)
(* pages are freed only when process_spawn fails and drops the address     *)
(* space.  Every step may find the page allocator empty.                   *)
(***************************************************************************)
EXTENDS Integers, Sequences

CONSTANTS LargePages, DirPages,   \* small pages under a PDE, under a PDPTE
          Segments,               \* the ELF image's loadable segments
          StackTop, EventBuf,     \* process_spawn's fixed addresses
          NSmall, NLarge,         \* pages of the page allocator
          Sizes, Aligns,          \* arguments of vmspace_alloc
          MaxAddr                 \* bound: addresses allocate may reach

ASSUME VMAssumption ==
    /\ LargePages \in Nat /\ LargePages > 1 /\ DirPages \in Nat \ {0}
    /\ Segments \in Seq([start: Nat, end: Nat])
    /\ NSmall \in Nat /\ NLarge \in Nat
    /\ Sizes \subseteq Nat /\ Aligns \subseteq Nat \ {0} /\ MaxAddr \in Nat

(* The image's segments, the stack and the event buffer are apart.  The    *)
(* code relies on it: allocate_fixed does not see a region that begins     *)
(* below the new one and reaches into it.                                  *)
Stack == [start |-> StackTop - LargePages, end |-> StackTop]
Events == [start |-> EventBuf, end |-> EventBuf + 1]
Apart(a, b) == a.end <= b.start \/ b.end <= a.start

ASSUME LayoutAssumption ==
    /\ StackTop \in LargePages..MaxAddr /\ EventBuf \in 0..(MaxAddr - 1)
    /\ Apart(Stack, Events)
    /\ \A i \in 1..Len(Segments) :
          /\ Segments[i].start < Segments[i].end /\ Segments[i].end <= MaxAddr
          /\ Apart(Segments[i], Stack) /\ Apart(Segments[i], Events)
          /\ \A j \in 1..Len(Segments) : i # j => Apart(Segments[i], Segments[j])

VARIABLES vm,     \* regions, page tables, free pages and the last result
          loaded, \* segments of the image that parse_elf_image has been through
          stage   \* how far process_spawn, and then acquire, has come

vars == <<vm, loaded, stage>>

Region(start, end, populated) == [start |-> start, end |-> end, populated |-> populated]

AlignDown(v, a) == v - (v % a)
AlignUp(v, a) == AlignDown(v + a - 1, a)

(* Small page i of the allocator is frame i; large pages are above them,   *)
(* aligned to their size.                                                  *)
LargeFrame(i) == AlignUp(NSmall + 1, LargePages) + i * LargePages
RxFrame == 0   \* the driver's receive page
-----------------------------------------------------------------------------
(* mmu_map_small_page and mmu_map_large_page allocate the tables that are  *)
(* missing on the way, one page each; what they have built stays when a    *)
(* page is missing.                                                        *)
TakeSmall(m) == [m EXCEPT !.nextSmall = @ + 1]
NoSmall(m) == m.nextSmall > NSmall

WithDir(m, v) ==
    IF v \div DirPages \in m.dirs THEN m
    ELSE IF NoSmall(m) THEN [m EXCEPT !.err = "ENOMEM"]
    ELSE [TakeSmall(m) EXCEPT !.dirs = @ \union {v \div DirPages}]

WithTable(m, v) ==
    IF m.err # "ok" \/ v \div LargePages \in m.tables \union DOMAIN m.pdes THEN m
    ELSE IF NoSmall(m) THEN [m EXCEPT !.err = "ENOMEM"]
    ELSE [TakeSmall(m) EXCEPT !.tables = @ \union {v \div LargePages}]

Empty == [x \in {} |-> 0]
Update(f, x, y) == [z \in DOMAIN f \union {x} |-> IF z = x THEN y ELSE f[z]]

MapSmallPage(m, v, frame) ==
    LET w == WithTable(WithDir(m, v), v)
    IN  IF w.err # "ok" THEN w
        ELSE IF v \div LargePages \in DOMAIN w.pdes THEN [w EXCEPT !.err = "EINVAL: mapped"]
        ELSE [w EXCEPT !.ptes = Update(@, v, frame)]

MapLargePage(m, v, frame) ==
    LET w == WithDir(m, v)
    IN  IF w.err # "ok" THEN w
        ELSE IF v \div LargePages \in w.tables THEN [w EXCEPT !.err = "EINVAL: mapped"]
        ELSE [w EXCEPT !.pdes = Update(@, v \div LargePages, frame)]

(* mmu_map_range: small pages up to a large page border, large pages,      *)
(* small pages; the list of what it maps, in order.                        *)
SmallChunks(from, to) == [i \in 1..(to - from) |-> [at |-> from + i - 1, large |-> FALSE]]
LargeChunks(from, to) ==
    [i \in 1..((to - from) \div LargePages) |->
        [at |-> from + (i - 1) * LargePages, large |-> TRUE]]

(* Faulty: large pages from the border below the range.                    *)
ChunksRoundedDown(start, end) ==
    LET largeStart == AlignDown(start, LargePages)
        largeEnd == AlignDown(end, LargePages)
    IN  LargeChunks(largeStart, largeEnd) \o SmallChunks(largeEnd, end)

(* Faulty: no small pages after the large ones.                            *)
ChunksWithoutTail(start, end) ==
    LET largeStart == AlignUp(start, LargePages)
        largeEnd == AlignDown(end, LargePages)
    IN  IF largeEnd < largeStart THEN SmallChunks(start, end)
        ELSE SmallChunks(start, largeStart) \o LargeChunks(largeStart, largeEnd)

Chunks(start, end) ==
    LET largeStart == AlignUp(start, LargePages)
        largeEnd == AlignDown(end, LargePages)
    IN  IF largeEnd < largeStart THEN SmallChunks(start, end)
        ELSE SmallChunks(start, largeStart) \o LargeChunks(largeStart, largeEnd)
               \o SmallChunks(largeEnd, end)

(* Faulty: the physical address stays the same.                            *)
MapRangeSameFrame(m, start, end, frame) ==
    LET cs == Chunks(start, end)
        after[k \in 0..Len(cs)] ==
            IF k = 0 THEN m
            ELSE LET w == after[k - 1]
                 IN  IF w.err # "ok" THEN w
                     ELSE IF cs[k].large THEN MapLargePage(w, cs[k].at, frame)
                     ELSE MapSmallPage(w, cs[k].at, frame)
    IN  after[Len(cs)]

(* The physical address advances with the virtual one; the first error     *)
(* ends the loop.                                                          *)
MapRange(m, start, end, frame) ==
    LET cs == Chunks(start, end)
        after[k \in 0..Len(cs)] ==
            IF k = 0 THEN m
            ELSE LET w == after[k - 1]
                     f == frame + cs[k].at - start
                 IN  IF w.err # "ok" THEN w
                     ELSE IF cs[k].large THEN MapLargePage(w, cs[k].at, f)
                     ELSE MapSmallPage(w, cs[k].at, f)
    IN  after[Len(cs)]
-----------------------------------------------------------------------------
(* The VMAddressSpace operations, on an address space without an error.    *)
OnSuccess(m, Op(_)) == IF m.err = "ok" THEN Op(m) ELSE m

(* The check for overlap looks at where the other regions start.           *)
Insert(m, start, end) ==
    IF \E r \in m.regions : start <= r.start /\ r.start < end
    THEN [m EXCEPT !.err = "EINVAL"]
    ELSE [m EXCEPT !.regions = @ \union {Region(start, end, FALSE)}, !.last = start]

AllocateFixed(m, start, end) == Insert(m, start, end)

(* Faulty: the new region begins where the highest one begins.             *)
UpperEndIsStart(m) ==
    IF m.regions = {} THEN 0
    ELSE (CHOOSE r \in m.regions : \A q \in m.regions : q.start <= r.start).start + 1

(* The end of the region that starts highest.                              *)
UpperEnd(m) ==
    IF m.regions = {} THEN 0
    ELSE (CHOOSE r \in m.regions : \A q \in m.regions : q.start <= r.start).end

Allocate(m, size, align) ==
    LET start == AlignUp(UpperEnd(m), align) IN Insert(m, start, start + size)

(* The region is marked as populated for the properties' sake.             *)
Done(m, start, end) ==
    IF m.err # "ok" THEN m
    ELSE [m EXCEPT !.regions =
            (@ \ {Region(start, end, FALSE)}) \union {Region(start, end, TRUE)}]

(* region.page.set: a region remembers one page, the last it was given.    *)
SetPage(m, start, frame) == [m EXCEPT !.page = Update(@, start, frame)]

Map(m, start, end, frame) ==
    Done(MapRange(SetPage(m, start, frame), start, end, frame), start, end)

Populate(m, start, end) ==
    IF end - start = LargePages
    THEN IF m.nextLarge > NLarge THEN [m EXCEPT !.err = "ENOMEM"]
         ELSE Map([m EXCEPT !.nextLarge = @ + 1], start, end, LargeFrame(m.nextLarge))
    ELSE IF end - start = 1
    THEN IF NoSmall(m) THEN [m EXCEPT !.err = "ENOMEM"]
         ELSE Map(TakeSmall(m), start, end, m.nextSmall)
    ELSE [m EXCEPT !.err = "EINVAL"]

PopulateFrom(m, start, end) ==
    LET after[k \in 0..(end - start)] ==
            IF k = 0 THEN m
            ELSE LET w == after[k - 1]
                     v == start + k - 1
                 IN  IF w.err # "ok" THEN w
                     ELSE IF NoSmall(w) THEN [w EXCEPT !.err = "ENOMEM"]
                     ELSE MapRange(SetPage(TakeSmall(w), start, w.nextSmall),
                                   v, v + 1, w.nextSmall)
    IN  Done(after[end - start], start, end)

(* Dropping the address space: every region frees the page it remembers.   *)
(* The page tables, which are the kernel's own, keep their entries.        *)
Drop(m) == [m EXCEPT !.regions = {}, !.page = Empty,
                     !.freed = {m.page[s] : s \in DOMAIN m.page}]
OrDrop(m) == IF m.err = "ok" THEN m ELSE Drop(m)
-----------------------------------------------------------------------------
(* Booting has used some of the pages.                                     *)
Init ==
    /\ \E small \in 1..(NSmall + 1), large \in 1..(NLarge + 1) :
         vm = [regions |-> {}, last |-> 0, ptes |-> Empty, pdes |-> Empty,
               dirs |-> {}, tables |-> {}, page |-> Empty,
               freed |-> {}, nextSmall |-> small,
               nextLarge |-> large, err |-> "ok"]
    /\ loaded = 0
    /\ stage = "segments"

Fresh == [vm EXCEPT !.err = "ok"]

(* parse_elf_image: an error there panics.                                 *)
LoadSegment ==
    /\ stage = "segments" /\ loaded < Len(Segments)
    /\ LET s == Segments[loaded + 1]
       IN  vm' = OnSuccess(AllocateFixed(Fresh, s.start, s.end),
                           LAMBDA m : PopulateFrom(m, s.start, s.end))
    /\ stage' = IF vm'.err = "ok" THEN "segments" ELSE "panicked"
    /\ loaded' = loaded + 1

(* The rest of process_spawn: an error there returns, which drops vmspace  *)
(* and leaves no process behind.                                           *)
SpawnStack ==
    /\ stage = "segments" /\ loaded = Len(Segments)
    /\ vm' = OrDrop(OnSuccess(AllocateFixed(Fresh, StackTop - LargePages, StackTop),
                              LAMBDA m : Populate(m, StackTop - LargePages, StackTop)))
    /\ stage' = IF vm'.err = "ok" THEN "events" ELSE "no process"
    /\ UNCHANGED loaded

SpawnEventBuf ==
    /\ stage = "events"
    /\ vm' = OrDrop(OnSuccess(AllocateFixed(Fresh, EventBuf, EventBuf + 1),
                              LAMBDA m : Populate(m, EventBuf, EventBuf + 1)))
    /\ stage' = IF vm'.err = "ok" THEN "running" ELSE "no process"
    /\ UNCHANGED loaded

(* process_vmspace_alloc: a region whose population fails stays.           *)
VmspaceAlloc(size, align) ==
    /\ stage \in {"running", "acquired"}
    /\ UpperEnd(vm) + align + size <= MaxAddr
    /\ vm' = OnSuccess(Allocate(Fresh, size, align),
                       LAMBDA m : Populate(m, m.last, m.last + size))
    /\ UNCHANGED <<loaded, stage>>

(* VirtioNetDevice::acquire: the receive page, then the I/O queue.         *)
Acquire ==
    /\ stage = "running"
    /\ LET rx == OnSuccess(Allocate(Fresh, 1, 1),
                           LAMBDA m : Map(m, m.last, m.last + 1, RxFrame))
           io == OnSuccess(rx, LAMBDA m : Allocate(m, 1, 1))
       IN  vm' = OnSuccess(io, LAMBDA m : Populate(m, m.last, m.last + 1))
    /\ stage' = "acquired"
    /\ UNCHANGED loaded

Next == \/ LoadSegment \/ SpawnStack \/ SpawnEventBuf \/ Acquire
        \/ \E size \in Sizes, align \in Aligns : VmspaceAlloc(size, align)

Spec == Init /\ [][Next]_vars
-----------------------------------------------------------------------------
(* Where the MMU finds a virtual page: under a page table or inside a      *)
(* large page, whose frame the hardware takes to be aligned.               *)
Mapped == {v \in 0..(MaxAddr + LargePages) :
             v \in DOMAIN vm.ptes \/ v \div LargePages \in DOMAIN vm.pdes}
Translate(v) ==
    IF v \div LargePages \in DOMAIN vm.pdes
    THEN AlignDown(vm.pdes[v \div LargePages], LargePages) + (v % LargePages)
    ELSE vm.ptes[v]

(* The regions of an address space do not overlap, although the check for  *)
(* overlap looks at their start addresses only, and regions whose          *)
(* population failed stay among them.                                      *)
RegionsDisjoint ==
    \A q, r \in vm.regions : q = r \/ q.end <= r.start \/ r.end <= q.start

(* Every page of a region whose population succeeded is mapped, whatever   *)
(* the mixture of small and large pages mmu_map_range has made of it, and  *)
(* stays mapped.                                                           *)
PopulatedIsMapped ==
    \A r \in vm.regions : r.populated => r.start..(r.end - 1) \subseteq Mapped

(* No two virtual pages share a physical one: regions never alias each     *)
(* other's memory or the driver's receive page.                            *)
NoAliasing ==
    \A v, w \in Mapped : Translate(v) = Translate(w) => v = w

(* Mapping a region never meets a large page where it needs a page table,  *)
(* or the reverse.                                                         *)
NoMapConflict == vm.err # "EINVAL: mapped"

(* No call moves or unmaps a page that is mapped.  mmu_map_range leaves it *)
(* to its callers to invalidate the TLB and vm.rs never does: that is      *)
(* right as long as entries are only added, whatever fails half way and    *)
(* also when the address space of a failed spawn is dropped.               *)
TranslationsStay ==
    [][\A v \in Mapped : v \in Mapped' /\ Translate(v)' = Translate(v)]_vars
=============================================================================
