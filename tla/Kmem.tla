-------------------------------- MODULE Kmem --------------------------------
(***************************************************************************)
(* The slab allocator of mm/kmem.c.  A cache is a list of slabs, a slab a  *)
(* page of objects with a free list.  The caches of small objects keep a   *)
(* slab's descriptor in its page; the others allocate it from the cache    *)
(* "slab" (kmem_slab_cache), one allocation inside another.                *)
(***************************************************************************)
EXTENDS Integers, Sequences, FiniteSets

CONSTANTS NPages,    \* pages 1..NPages of the page allocator
          Capacity   \* objects per slab of each cache

Caches == {"slab", "small", "big"}   \* descriptors, kmalloc-32..256, kmalloc-512..4096
ClientCaches == {"small", "big"}
Pages == 1..NPages

ASSUME KmemAssumption == /\ NPages \in Nat /\ NPages >= 3
                         /\ Capacity \in [Caches -> Nat \ {0}]

VARIABLES mem,    \* free pages and slab lists
          live,   \* live[c]: the objects of c in use
          mixed   \* an object was freed to a slab it does not belong to

vars == <<mem, live, mixed>>

Objects(c) == Pages \X (1..Capacity[c])
PageOf(o) == o[1]
-----------------------------------------------------------------------------
(* The free list kmem_slab_create builds, in the order of addresses.       *)
FreshList(c, p) == [i \in 1..Capacity[c] |-> <<p, i>>]

LowestPage(m) == CHOOSE p \in m.pages : \A q \in m.pages : p <= q

AddSlab(m, c, p) ==
    [m EXCEPT !.pages = @ \ {p},
              !.slabs[c] = <<[page |-> p, list |-> FreshList(c, p)]>> \o @]

(* kmem_slab_alloc_object on the first slab of the list.                   *)
HasFree(m, c) == Head(m.slabs[c]).list # << >>
FirstFree(m, c) == Head(Head(m.slabs[c]).list)
TakeFirst(m, c) == [m EXCEPT !.slabs[c][1].list = Tail(@)]

(* kmem_cache_alloc's way to a first slab with a free object: none needed, *)
(* a slab with its descriptor in its page, or (for "big") a page and then  *)
(* a descriptor from kmem_slab_cache.  The result is a set, empty when a   *)
(* page is missing.                                                        *)
RefillInPage(m, c) ==
    IF HasFree(m, c) THEN {m}
    ELSE IF m.pages = {} THEN {}
    ELSE {AddSlab(m, c, LowestPage(m))}

(* Faulty: the page goes to the slab before the nested allocation of the   *)
(* descriptor looks for one.                                               *)
RefillBigNested(m) ==
    IF HasFree(m, "big") THEN {m}
    ELSE IF m.pages = {} THEN {}
    ELSE {AddSlab(TakeFirst(r, "slab"), "big", LowestPage(m)) :
            r \in RefillInPage(m, "slab")}

RefillBig(m) ==
    IF HasFree(m, "big") THEN {m}
    ELSE IF m.pages = {} THEN {}
    ELSE LET p == LowestPage(m)
             taken == [m EXCEPT !.pages = @ \ {p}]
         IN  {AddSlab(TakeFirst(r, "slab"), "big", p) :
                r \in RefillInPage(taken, "slab")}

Refill(m, c) == IF c = "big" THEN RefillBig(m) ELSE RefillInPage(m, c)

(* Faulty: released when one object is still in use.                       *)
PutFirstEarly(m, c, o) ==
    LET put == [m EXCEPT !.slabs[c][1].list = <<o>> \o @]
        s == Head(put.slabs[c])
    IN  IF Len(s.list) >= Capacity[c] - 1 /\ Len(put.slabs[c]) > 1
        THEN [put EXCEPT !.pages = @ \union {s.page}, !.slabs[c] = Tail(@)]
        ELSE put

(* kmem_slab_free_object and the release of the first slab: the object     *)
(* goes to the first slab of the cache; when that has Capacity free        *)
(* objects and is not the last one, its page is freed.                     *)
PutFirst(m, c, o) ==
    LET put == [m EXCEPT !.slabs[c][1].list = <<o>> \o @]
        s == Head(put.slabs[c])
    IN  IF Len(s.list) = Capacity[c] /\ Len(put.slabs[c]) > 1
        THEN [put EXCEPT !.pages = @ \union {s.page}, !.slabs[c] = Tail(@)]
        ELSE put
-----------------------------------------------------------------------------
(* The state kmem_init leaves: a slab for every cache.                     *)
Init ==
    /\ mem = LET m0 == [pages |-> Pages, slabs |-> [c \in Caches |-> << >>]]
                 m1 == AddSlab(m0, "slab", 1)
                 m2 == AddSlab(m1, "small", 2)
             IN  AddSlab(TakeFirst(m2, "slab"), "big", 3)
    /\ live = [c \in ClientCaches |-> {}]
    /\ mixed = FALSE

(* An object in use lies in a page that has been freed: from here on its   *)
(* user and the page's next owner write over each other.                   *)
Corrupt == \E c \in ClientCaches : \E o \in live[c] : PageOf(o) \in mem.pages

(* kmem_alloc (it returns NULL, and changes nothing, without a page).      *)
Alloc(c) ==
    /\ ~Corrupt
    /\ \E m \in Refill(mem, c) :
          /\ live' = [live EXCEPT ![c] = @ \union {FirstFree(m, c)}]
          /\ mem' = TakeFirst(m, c)
    /\ UNCHANGED mixed

(* kmem_free of an object in use.                                          *)
Free(c, o) ==
    /\ ~Corrupt
    /\ live' = [live EXCEPT ![c] = @ \ {o}]
    /\ mem' = PutFirst(mem, c, o)
    /\ mixed' = (mixed \/ PageOf(o) # Head(mem.slabs[c]).page)

Next == \E c \in ClientCaches : Alloc(c) \/ \E o \in live[c] : Free(c, o)

Spec == Init /\ [][Next]_vars
-----------------------------------------------------------------------------
SlabPages == {s \in Caches \X Pages : s[2] \in DOMAIN mem.slabs[s[1]]}

(* A page is free or belongs to exactly one slab of one cache, although    *)
(* kmem_slab_create allocates a descriptor, and with it perhaps another    *)
(* slab, while it holds the page of the new one.                           *)
OneOwnerPerPage ==
    \A a, b \in SlabPages :
        LET page(x) == mem.slabs[x[1]][x[2]].page
        IN  page(a) \notin mem.pages /\ (a # b => page(a) # page(b))

FreeObjects(c) ==
    UNION {{mem.slabs[c][i].list[j] : j \in DOMAIN mem.slabs[c][i].list} :
             i \in DOMAIN mem.slabs[c]}

(* nr_free of all slabs of a list together, from its last slab on.         *)
NrFree(slabs) ==
    LET sum[k \in 0..Len(slabs)] ==
            IF k = 0 THEN 0
            ELSE sum[k - 1] + Len(slabs[Len(slabs) + 1 - k].list)
    IN  sum[Len(slabs)]

(* As long as every object is freed to the slab it came from, no object in *)
(* use is free as well, none is lost (all objects of a cache's slabs are   *)
(* in use or on a free list), and none lies in a page kmem_slab_destroy    *)
(* has freed.  When one was freed to another slab the counts of a cache    *)
(* still add up, so that nothing notices.                                  *)
ObjectsConserved ==
    \A c \in ClientCaches :
        /\ Cardinality(live[c]) + NrFree(mem.slabs[c]) = Capacity[c] * Len(mem.slabs[c])
        /\ ~mixed =>
             /\ live[c] \cap FreeObjects(c) = {}
             /\ live[c] \union FreeObjects(c) =
                  UNION {{mem.slabs[c][i].page} \X (1..Capacity[c]) : i \in DOMAIN mem.slabs[c]}
=============================================================================
