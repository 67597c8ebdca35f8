------------------------------- MODULE Malloc -------------------------------
(***************************************************************************)
(* malloc and free of usr/liblinux/src/malloc.c.  A heap is made of        *)
(* segments of NPages pages of PageSize bytes, the first of which begins   *)
(* with MetaSize bytes of segment metadata.  A page claimed for a block    *)
(* size keeps it for ever.  Segments come from the vmspace_alloc system    *)
(* call and are all zero: a page whose size is 0 is unclaimed.             *)
(***************************************************************************)
EXTENDS Integers, Sequences, Functions

CONSTANTS MinObj,     \* MIN_OBJ_SIZE
          SmallMax,   \* SMALL_OBJ_SIZE_MAX
          PageSize,   \* MALLOC_PAGE_SIZE
          NPages,     \* pages in a segment
          MetaSize,   \* malloc_segment_metadata_size
          NSegments,  \* segments vmspace_alloc can still provide
          Requests    \* sizes the program asks for

ASSUME SizesAssumption ==
    /\ {MinObj, SmallMax, PageSize, NPages, MetaSize} \subseteq Nat \ {0}
    /\ NSegments \in Nat /\ Requests \subseteq Nat
    /\ SmallMax % MinObj = 0 /\ MetaSize + SmallMax <= PageSize

VARIABLES heap,   \* pages: every page of every segment; queue: segment_queue;
                  \* class: the page of each size class; segments: how many
          live,   \* the objects the program holds, with their requested sizes
          wild    \* the size whose class was beyond heap->pages, or 0

vars == <<heap, live, wild>>

SegmentSize == NPages * PageSize
PageIds == (1..NSegments) \X (0..(NPages - 1))
NoPage == <<0, 0>>                               \* empty_page

NumSizeClasses == (SmallMax + MinObj - 1) \div MinObj
ToBlockSize(size) == ((size + MinObj - 1) \div MinObj) * MinObj
ToSizeClass(size) == ToBlockSize(size) \div MinObj

(* Faulty: the first page's blocks start on the metadata.                  *)
PageObjOnMeta(p) == p[1] * SegmentSize + p[2] * PageSize

(* malloc_segment_page_obj.  Segment s starts at s * SegmentSize.          *)
PageObj(p) == p[1] * SegmentSize + (IF p[2] = 0 THEN MetaSize ELSE p[2] * PageSize)

(* malloc_segment_page_size.                                               *)
PageBytes(p) == IF p[2] = 0 THEN PageSize - MetaSize ELSE PageSize

(* malloc_obj_to_segment and malloc_obj_to_page.                           *)
PageOf(obj) == <<obj \div SegmentSize, (obj % SegmentSize) \div PageSize>>

Unclaimed == [size |-> 0, used |-> 0, capacity |-> 0, free |-> <<>>]

(* malloc_segment_claim_page: the lowest block comes first.                *)
Claimed(p, bs) ==
    LET n == PageBytes(p) \div bs
    IN  [size |-> bs, used |-> 0, capacity |-> n,
         free |-> [i \in 1..n |-> PageObj(p) + (i - 1) * bs]]

(* A page malloc_heap_alloc_page stops at: unclaimed, or of the right size *)
(* and with blocks remaining.                                              *)
Fits(page, bs) == page.size = 0 \/ (page.size = bs /\ page.used < page.capacity)

FitIn(h, s, bs) == {i \in 0..(NPages - 1) : Fits(h.pages[<<s, i>>], bs)}
FirstIn(h, s, bs) ==
    CHOOSE i \in FitIn(h, s, bs) : \A j \in FitIn(h, s, bs) : i <= j

(* malloc_heap_alloc_page: segments of the queue with no page for this     *)
(* block size are popped for good, then a new one is asked of the OS.      *)
QueueFrom(h, bs) ==
    LET fit == {k \in 1..Len(h.queue) : FitIn(h, h.queue[k], bs) # {}}
    IN  IF fit = {} THEN <<>>
        ELSE SubSeq(h.queue, CHOOSE k \in fit : \A j \in fit : k <= j, Len(h.queue))

WithSegment(h) ==
    IF h.queue = <<>> /\ h.segments < NSegments
    THEN [h EXCEPT !.segments = @ + 1, !.queue = <<h.segments + 1>>]
    ELSE h

AllocPage(h, bs, c) ==
    LET g == WithSegment([h EXCEPT !.queue = QueueFrom(h, bs)])
    IN  IF g.queue = <<>> THEN g
        ELSE LET p == <<Head(g.queue), FirstIn(g, Head(g.queue), bs)>>
             IN  [g EXCEPT !.class[c] = p,
                           !.pages[p] = IF @.size = 0 THEN Claimed(p, bs) ELSE @]

PageFull(h, c) == h.class[c] = NoPage \/ h.pages[h.class[c]].free = <<>>

(* malloc_heap_get_page; the heap is unchanged but for the queue when it   *)
(* fails, and the size class's page is then still full.                    *)
GetPage(h, bs, c) == IF PageFull(h, c) THEN AllocPage(h, bs, c) ELSE h

Init ==
    /\ heap = [pages    |-> [p \in PageIds |-> Unclaimed],
               queue    |-> <<>>,
               class    |-> [c \in 0..(NumSizeClasses - 1) |-> NoPage],
               segments |-> 0]
    /\ live = {}
    /\ wild = 0

(* malloc_page_alloc_obj on the page of class c.                           *)
AllocObj(h, c) ==
    [h EXCEPT !.pages[h.class[c]].free = Tail(@), !.pages[h.class[c]].used = @ + 1]

(* malloc(size) for a small size: malloc_heap_alloc_small.                 *)
Malloc(size) ==
    LET sz == IF size = 0 THEN MinObj ELSE size
        bs == ToBlockSize(sz)
        c  == ToSizeClass(sz)
    IN  /\ wild = 0
        /\ size < SmallMax
        /\ IF c \notin DOMAIN heap.class
           THEN wild' = sz /\ UNCHANGED <<heap, live>>
           ELSE LET h == GetPage(heap, bs, c)
                IN  /\ IF PageFull(h, c)
                       THEN heap' = h /\ UNCHANGED live
                       ELSE /\ heap' = AllocObj(h, c)
                            /\ live' = live \union
                                 {<<Head(h.pages[h.class[c]].free), sz>>}
                    /\ UNCHANGED wild

(* Faulty: the page's use count is left alone.                             *)
FreeKeepsUsed(o) ==
    /\ wild = 0
    /\ heap' = [heap EXCEPT !.pages[PageOf(o[1])].free = <<o[1]>> \o @]
    /\ live' = live \ {o}
    /\ UNCHANGED wild

(* free(ptr).                                                              *)
Free(o) ==
    /\ wild = 0
    /\ heap' = [heap EXCEPT !.pages[PageOf(o[1])].free = <<o[1]>> \o @,
                            !.pages[PageOf(o[1])].used = @ - 1]
    /\ live' = live \ {o}
    /\ UNCHANGED wild

Next == \/ \E size \in Requests : Malloc(size)
        \/ \E o \in live : Free(o)

Spec == Init /\ [][Next]_vars
-----------------------------------------------------------------------------
(* Every block of a claimed page is either on its free list, once, or held *)
(* by the program, and malloc_page's used counts the latter: so remaining  *)
(* blocks and the free list, which the two checks of malloc_heap_get_page  *)
(* and malloc_heap_alloc_page read, never disagree.  A size class has a    *)
(* page of its size.                                                       *)
BlocksConserved ==
    /\ \A c \in DOMAIN heap.class :
          heap.class[c] # NoPage => heap.pages[heap.class[c]].size = c * MinObj
    /\ \A p \in PageIds :
       LET page == heap.pages[p]
           held == {o[1] : o \in {x \in live : PageOf(x[1]) = p}}
       IN  /\ page.used + Len(page.free) = page.capacity
           /\ IsInjective(page.free)
           /\ Range(page.free) \intersect held = {}
           /\ Range(page.free) \union held
                = {PageObj(p) + (i - 1) * page.size : i \in 1..page.capacity}

(* Objects the program holds do not overlap one another or the metadata at *)
(* the start of their segment, and end inside it, for the sizes requested. *)
(* Not every size-class has a page ("The heap has pages for each           *)
(* size-class"): malloc indexes past heap->pages for sizes that are less   *)
(* than MIN_OBJ_SIZE below SMALL_OBJ_SIZE_MAX, and for no other.           *)
ObjectsDisjoint ==
    /\ \A o, q \in live : o # q => o[1] + o[2] <= q[1] \/ q[1] + q[2] <= o[1]
    /\ \A o \in live : /\ o[1] % SegmentSize >= MetaSize
                       /\ (o[1] % SegmentSize) + o[2] <= SegmentSize
                       /\ o[2] <= SmallMax - MinObj
    /\ wild # 0 => wild > SmallMax - MinObj

(* The memory of the objects in use.                                       *)
Held == {[base |-> o[1], size |-> o[2]] : o \in live}
ObjectAllocator == INSTANCE Allocator WITH held <- Held

(* malloc(size) returns an object, not NULL.                               *)
Served(size) ==
    LET sz == IF size = 0 THEN MinObj ELSE size
        c  == ToSizeClass(sz)
    IN  c \in DOMAIN heap.class /\ ~PageFull(GetPage(heap, ToBlockSize(sz), c), c)

(* malloc and free are an allocator: an object malloc returns, with all    *)
(* the bytes that were asked for, meets no object the program holds and is *)
(* not one of them again, and free takes back its object and no other.     *)
ImplementsAllocator ==
    /\ ObjectAllocator!AllocatorSpec
    /\ [][\A size \in Requests : Malloc(size) /\ Served(size) => ObjectAllocator!Take]_vars
=============================================================================
