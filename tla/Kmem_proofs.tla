---------------------------- MODULE Kmem_proofs ----------------------------
(***************************************************************************)
(* For every number of pages and every slab capacity, no page of the slab  *)
(* allocator has two owners and no object is lost or handed out twice.     *)
(***************************************************************************)
EXTENDS Kmem, FiniteSetTheorems, SequenceTheorems, WellFoundedInduction, TLAPS

Slab == [page : Pages, list : Seq(Pages \X Nat)]

MemType(m) == m \in [pages : SUBSET Pages, slabs : [Caches -> Seq(Slab)]]

(* A page is free or of one slab.                                          *)
Apart(m) ==
    \A c, d \in Caches : \A i \in DOMAIN m.slabs[c], j \in DOMAIN m.slabs[d] :
        /\ m.slabs[c][i].page \notin m.pages
        /\ m.slabs[c][i].page = m.slabs[d][j].page => c = d /\ i = j

MemInv(m) == MemType(m) /\ Apart(m) /\ \A c \in Caches : m.slabs[c] # << >>

(* What holds of a cache with the slabs st and the objects lv in use:      *)
(* free objects are listed once, are not in use, and are of the page of    *)
(* their slab or of an older one.  The pages of objects in use are slabs'  *)
(* pages or (once mixed) freed ones.                                       *)
Listed(c, st, lv) ==
    \A i \in 1..Len(st) : \A k \in 1..Len(st[i].list) :
        /\ st[i].list[k] \in Objects(c) \ lv
        /\ \E j \in i..Len(st) : st[j].page = PageOf(st[i].list[k])

ListedOnce(st) ==
    \A i, j \in 1..Len(st) :
        \A k \in 1..Len(st[i].list), l \in 1..Len(st[j].list) :
            st[i].list[k] = st[j].list[l] => i = j /\ k = l

LivePlaced(st, lv, freed, mx) ==
    \A o \in lv : \/ \E j \in 1..Len(st) : st[j].page = PageOf(o)
                  \/ mx /\ PageOf(o) \in freed

(* Until then a slab's list has objects of its own page only, all those    *)
(* that are not in use.                                                    *)
OwnLists(c, st, lv) ==
    \A i \in 1..Len(st) :
        /\ \A k \in 1..Len(st[i].list) : PageOf(st[i].list[k]) = st[i].page
        /\ \A n \in 1..Capacity[c] :
              \/ <<st[i].page, n>> \in lv
              \/ \E k \in 1..Len(st[i].list) : st[i].list[k] = <<st[i].page, n>>

CacheInv(c, st, lv, freed, mx) ==
    /\ st \in Seq(Slab)
    /\ lv \subseteq Objects(c) /\ IsFiniteSet(lv)
    /\ \A i, j \in 1..Len(st) : st[i].page = st[j].page => i = j
    /\ Listed(c, st, lv)
    /\ ListedOnce(st)
    /\ LivePlaced(st, lv, freed, mx)
    /\ ~mx => OwnLists(c, st, lv)
    /\ Cardinality(lv) + NrFree(st) = Capacity[c] * Len(st)

(* The inductive invariant.                                                *)
KmemInv ==
    /\ MemInv(mem)
    /\ live \in [ClientCaches -> SUBSET (Pages \X Nat)]
    /\ mixed \in BOOLEAN
    /\ \A c \in ClientCaches :
          CacheInv(c, mem.slabs[c], live[c], mem.pages, mixed)
-----------------------------------------------------------------------------
(* A set of naturals that is not empty has a least element.                *)
LEMMA LeastNatural ==
    ASSUME NEW T, T \subseteq Nat, T # {}
    PROVE  \E x \in T : \A y \in T : ~(y < x)
<1>1. PICK x \in T : \A y \in T : <<y, x>> \notin OpToRel(<, Nat)
  BY NatLessThanWellFounded, WFMin, Zenon
<1>2. \A y \in T : ~(y < x)
  BY <1>1, Zenon DEF OpToRel
<1> QED
  BY <1>2

(* The running sum that NrFree takes exists, and two of them over the same *)
(* lengths are the same.                                                   *)
RunningSum(g, h, n) ==
    /\ g \in [0..n -> Nat]
    /\ g[0] = 0
    /\ \A k \in 1..n : g[k] = g[k - 1] + h[k]

SameUpTo(h, f, m) == \A k \in 1..m : h[k] = f[k]

LEMMA SumExists ==
    ASSUME NEW n \in Nat, NEW h \in [1..n -> Nat]
    PROVE  \E g : RunningSum(g, h, n)
<1> DEFINE Bad == {m \in 0..n : ~\E g : RunningSum(g, h, m)}
<1> SUFFICES ASSUME Bad # {} PROVE FALSE
  <2>1. n \notin Bad => \E g : RunningSum(g, h, n)
    OBVIOUS
  <2> QED
    BY <2>1, Zenon
<1>1. PICK m \in Bad : \A y \in Bad : ~(y < m)
  <2>1. Bad \subseteq Nat
    OBVIOUS
  <2> QED
    BY <2>1, LeastNatural, Zenon
<1>2. m # 0
  <2>1. RunningSum([k \in 0..0 |-> 0], h, 0)
    BY DEF RunningSum
  <2> QED
    BY <2>1
<1>3. m \in Nat /\ m - 1 \in 0..n /\ m - 1 < m /\ m \in 1..n
  BY <1>2
<1>4. PICK g : RunningSum(g, h, m - 1)
  BY <1>1, <1>3
<1> DEFINE e == [k \in 0..m |-> IF k < m THEN g[k] ELSE g[m - 1] + h[m]]
<1>5. RunningSum(e, h, m)
  <2>1. g \in [0..(m - 1) -> Nat] /\ g[0] = 0
    BY <1>4 DEF RunningSum
  <2>2. e \in [0..m -> Nat]
    <3>1. h[m] \in Nat /\ g[m - 1] \in Nat
      BY <1>3, <2>1
    <3>2. \A k \in 0..m : k < m => g[k] \in Nat
      BY <1>3, <2>1
    <3> QED
      BY <3>1, <3>2
  <2>3. e[0] = 0
    BY <1>3, <2>1
  <2>4. \A k \in 1..m : e[k] = e[k - 1] + h[k]
    BY <1>3, <1>4 DEF RunningSum
  <2> QED
    BY <2>2, <2>3, <2>4, Zenon DEF RunningSum
<1> QED
  BY <1>5

LEMMA SumUnique ==
    ASSUME NEW n \in Nat, NEW g, NEW h, NEW e, NEW f, NEW m \in Nat, m <= n,
           RunningSum(g, h, n), RunningSum(e, f, m), SameUpTo(h, f, m)
    PROVE  g[m] = e[m]
<1> DEFINE Bad == {k \in 0..m : g[k] # e[k]}
<1> SUFFICES ASSUME Bad # {} PROVE FALSE
  OBVIOUS
<1>1. PICK k \in Bad : \A y \in Bad : ~(y < k)
  <2>1. Bad \subseteq Nat
    OBVIOUS
  <2> QED
    BY <2>1, LeastNatural, Zenon
<1>2. k # 0
  BY DEF RunningSum
<1>3. k - 1 \in 0..m /\ k - 1 < k /\ k \in 1..m /\ k \in 1..n
  BY <1>2
<1>4. g[k - 1] = e[k - 1]
  BY <1>1, <1>3
<1> QED
  BY <1>3, <1>4 DEF RunningSum, SameUpTo

ListLengths(st) == [k \in 1..Len(st) |-> Len(st[Len(st) + 1 - k].list)]

LEMMA ListLengthsType ==
    ASSUME NEW st \in Seq(Slab)
    PROVE  /\ Len(st) \in Nat
           /\ ListLengths(st) \in [1..Len(st) -> Nat]
           /\ \A i \in 1..Len(st) : Len(st[i].list) \in Nat
<1>1. Len(st) \in Nat /\ \A i \in 1..Len(st) : st[i] \in Slab
  BY ElementOfSeq, LenProperties
<1>2. \A i \in 1..Len(st) : Len(st[i].list) \in Nat
  BY <1>1, LenProperties DEF Slab
<1>3. \A k \in 1..Len(st) : Len(st) + 1 - k \in 1..Len(st)
  BY <1>1
<1> QED
  BY <1>1, <1>2, <1>3 DEF ListLengths

LEMMA NrFreeIsSum ==
    ASSUME NEW st \in Seq(Slab)
    PROVE  \E g : RunningSum(g, ListLengths(st), Len(st)) /\ NrFree(st) = g[Len(st)]
<1> DEFINE F(f) == [k \in 0..Len(st) |->
                     IF k = 0 THEN 0 ELSE f[k - 1] + Len(st[Len(st) + 1 - k].list)]
<1>1. PICK e : RunningSum(e, ListLengths(st), Len(st))
  BY ListLengthsType, SumExists, Zenon
<1>2. e = F(e)
  <2>1. e \in [0..Len(st) -> Nat]
    BY <1>1 DEF RunningSum
  <2>2. \A k \in 0..Len(st) : e[k] = F(e)[k]
    BY <1>1, ListLengthsType DEF RunningSum, ListLengths
  <2> QED
    BY <2>1, <2>2
<1> DEFINE g == CHOOSE f : f = F(f)
<1>3. g = F(g)
  <2> HIDE DEF F
  <2> QED
    BY <1>2
<1>4. NrFree(st) = g[Len(st)]
  BY DEF NrFree
<1> HIDE DEF g
<1>5. \A k \in 0..Len(st) : g[k] = e[k]
  <2> DEFINE Bad == {k \in 0..Len(st) : g[k] # e[k]}
  <2> SUFFICES ASSUME Bad # {} PROVE FALSE
    OBVIOUS
  <2>0. Len(st) \in Nat
    BY ListLengthsType
  <2>1. PICK k \in Bad : \A y \in Bad : ~(y < k)
    <3>1. Bad \subseteq Nat
      BY <2>0
    <3> QED
      BY <3>1, LeastNatural, Zenon
  <2>2. k # 0
    BY <1>2, <1>3, <2>0
  <2>3. k - 1 \in 0..Len(st) /\ k - 1 < k
    BY <2>0, <2>2
  <2>4. g[k - 1] = e[k - 1]
    BY <2>1, <2>3
  <2>5. e[k] = e[k - 1] + Len(st[Len(st) + 1 - k].list)
    BY <1>2, <2>2, Zenon
  <2>6. g[k] = g[k - 1] + Len(st[Len(st) + 1 - k].list)
    BY <1>3, <2>2, Zenon
  <2> QED
    BY <2>4, <2>5, <2>6, Zenon
<1> QED
  BY <1>1, <1>4, <1>5, ListLengthsType

(* What NrFree counts: the first slab's free objects and the others'.      *)
LEMMA NrFreeType ==
    ASSUME NEW st \in Seq(Slab)
    PROVE  NrFree(st) \in Nat
<1>1. PICK g : RunningSum(g, ListLengths(st), Len(st)) /\ NrFree(st) = g[Len(st)]
  BY NrFreeIsSum
<1>2. g \in [0..Len(st) -> Nat] /\ Len(st) \in 0..Len(st)
  BY <1>1, ListLengthsType DEF RunningSum
<1> QED
  BY <1>1, <1>2

LEMMA NrFreeEmpty == NrFree(<< >>) = 0
<1>0. << >> \in Seq(Slab) /\ Len(<< >>) = 0
  BY EmptySeq
<1>1. PICK g : RunningSum(g, ListLengths(<< >>), Len(<< >>)) /\ NrFree(<< >>) = g[Len(<< >>)]
  BY <1>0, NrFreeIsSum, Zenon
<1> QED
  BY <1>0, <1>1 DEF RunningSum

LEMMA NrFreeHead ==
    ASSUME NEW st \in Seq(Slab), st # << >>
    PROVE  NrFree(st) = NrFree(Tail(st)) + Len(st[1].list)
<1>1. /\ Tail(st) \in Seq(Slab) /\ Len(Tail(st)) = Len(st) - 1
      /\ \A i \in 1..Len(Tail(st)) : Tail(st)[i] = st[i + 1]
      /\ Len(st) \in Nat \ {0}
  BY HeadTailProperties, EmptySeq
<1>2. PICK g : RunningSum(g, ListLengths(st), Len(st)) /\ NrFree(st) = g[Len(st)]
  BY NrFreeIsSum
<1>3. PICK e : /\ RunningSum(e, ListLengths(Tail(st)), Len(Tail(st)))
               /\ NrFree(Tail(st)) = e[Len(Tail(st))]
  BY <1>1, NrFreeIsSum, Zenon
<1>4. SameUpTo(ListLengths(st), ListLengths(Tail(st)), Len(Tail(st)))
  <2> SUFFICES ASSUME NEW k \in 1..Len(Tail(st))
               PROVE  ListLengths(st)[k] = ListLengths(Tail(st))[k]
    BY DEF SameUpTo
  <2>1. k \in 1..Len(st) /\ Len(Tail(st)) + 1 - k \in 1..Len(Tail(st))
    BY <1>1
  <2>2. Tail(st)[Len(Tail(st)) + 1 - k] = st[Len(st) + 1 - k]
    <3>1. (Len(Tail(st)) + 1 - k) + 1 = Len(st) + 1 - k
      BY <1>1
    <3> QED
      BY <1>1, <2>1, <3>1
  <2> QED
    BY <2>1, <2>2 DEF ListLengths
<1>5. g[Len(st) - 1] = e[Len(st) - 1]
  <2>1. Len(st) \in Nat /\ Len(Tail(st)) \in Nat /\ Len(Tail(st)) <= Len(st)
    BY <1>1
  <2>2. g[Len(Tail(st))] = e[Len(Tail(st))]
    BY <1>2, <1>3, <1>4, <2>1, SumUnique
  <2> QED
    BY <1>1, <2>2
<1>6. ListLengths(st)[Len(st)] = Len(st[1].list)
  <2>1. Len(st) \in 1..Len(st) /\ Len(st) + 1 - Len(st) = 1
    BY <1>1
  <2> QED
    BY <2>1 DEF ListLengths
<1>7. g[Len(st)] = g[Len(st) - 1] + ListLengths(st)[Len(st)]
  BY <1>1, <1>2 DEF RunningSum
<1> QED
  BY <1>1, <1>2, <1>3, <1>5, <1>6, <1>7

(* A slab in front of the list, and another first slab.                    *)
LEMMA PushSlab ==
    ASSUME NEW st \in Seq(Slab), NEW x \in Slab
    PROVE  LET t == <<x>> \o st
           IN  /\ t \in Seq(Slab) /\ Len(t) = Len(st) + 1 /\ t # << >>
               /\ t[1] = x /\ \A i \in 1..Len(st) : t[i + 1] = st[i]
               /\ NrFree(t) = NrFree(st) + Len(x.list)
<1> DEFINE t == <<x>> \o st
<1>1. <<x>> \in Seq(Slab) /\ Len(<<x>>) = 1 /\ <<x>>[1] = x /\ Len(st) \in Nat
  BY LenProperties
<1>2. /\ t \in Seq(Slab) /\ Len(t) = Len(st) + 1
      /\ \A i \in 1..(1 + Len(st)) : t[i] = IF i <= 1 THEN <<x>>[i] ELSE st[i - 1]
  BY <1>1, ConcatProperties
<1>3. t[1] = x /\ \A i \in 1..Len(st) : t[i + 1] = st[i]
  <2> HIDE DEF t
  <2> QED
    BY <1>1, <1>2
<1>4. t # << >>
  BY <1>1, <1>2, EmptySeq
<1>5. Tail(t) = st
  <2>1. /\ Tail(t) \in Seq(Slab) /\ Len(Tail(t)) = Len(st)
        /\ \A i \in 1..Len(Tail(t)) : Tail(t)[i] = t[i + 1]
    BY <1>1, <1>2, <1>4, HeadTailProperties
  <2> HIDE DEF t
  <2>2. \A i \in 1..Len(Tail(t)) : Tail(t)[i] = st[i]
    BY <1>3, <2>1
  <2> QED
    BY <2>1, <2>2, SeqEqual
<1> HIDE DEF t
<1>6. NrFree(t) = NrFree(st) + Len(x.list)
  BY <1>2, <1>3, <1>4, <1>5, NrFreeHead, Zenon
<1> QED
  BY <1>2, <1>3, <1>4, <1>6 DEF t

FirstSlabSet(st, x, t) ==
    /\ t \in Seq(Slab) /\ Len(t) = Len(st) /\ t # << >>
    /\ t[1] = x /\ \A i \in 2..Len(st) : t[i] = st[i]
    /\ NrFree(t) = (NrFree(st) - Len(st[1].list)) + Len(x.list)

LEMMA SetFirst ==
    ASSUME NEW st \in Seq(Slab), st # << >>, NEW x \in Slab
    PROVE  FirstSlabSet(st, x, [st EXCEPT ![1] = x])
<1> DEFINE t == [st EXCEPT ![1] = x]
<1>1. Len(st) \in Nat \ {0} /\ 1 \in 1..Len(st)
  BY EmptySeq
<1>2. /\ t \in Seq(Slab) /\ Len(t) = Len(st)
      /\ \A i \in 1..Len(st) : t[i] = IF i = 1 THEN x ELSE st[i]
  BY <1>1, ExceptSeq
<1> HIDE DEF t
<1>3. t[1] = x /\ \A i \in 2..Len(st) : t[i] = st[i]
  BY <1>1, <1>2
<1>4. t # << >>
  BY <1>1, <1>2, EmptySeq
<1>5. Tail(t) = Tail(st)
  <2>1. /\ Tail(t) \in Seq(Slab) /\ Len(Tail(t)) = Len(st) - 1
        /\ \A i \in 1..Len(Tail(t)) : Tail(t)[i] = t[i + 1]
    BY <1>2, <1>4, HeadTailProperties
  <2>2. /\ Tail(st) \in Seq(Slab) /\ Len(Tail(st)) = Len(st) - 1
        /\ \A i \in 1..Len(Tail(st)) : Tail(st)[i] = st[i + 1]
    BY HeadTailProperties
  <2>3. \A i \in 1..Len(Tail(t)) : Tail(t)[i] = Tail(st)[i]
    BY <1>1, <1>3, <2>1, <2>2
  <2> QED
    BY <2>1, <2>2, <2>3, SeqEqual
<1>6. NrFree(t) = (NrFree(st) - Len(st[1].list)) + Len(x.list)
  <2>1. NrFree(t) = NrFree(Tail(st)) + Len(x.list)
    BY <1>2, <1>3, <1>4, <1>5, NrFreeHead, Zenon
  <2>2. NrFree(st) = NrFree(Tail(st)) + Len(st[1].list)
    BY NrFreeHead
  <2>3. NrFree(Tail(st)) \in Nat /\ Len(st[1].list) \in Nat
    BY <1>1, HeadTailProperties, NrFreeType, ListLengthsType, Zenon
  <2>4. Len(x.list) \in Nat
    BY LenProperties DEF Slab
  <2> QED
    BY <2>1, <2>2, <2>3, <2>4
<1> QED
  BY <1>2, <1>3, <1>4, <1>6 DEF t, FirstSlabSet

-----------------------------------------------------------------------------
LEMMA TimesSucc ==
    ASSUME NEW a \in Nat, NEW b \in Nat
    PROVE  a * (b + 1) = a * b + a /\ a * b \in Nat
  OBVIOUS

(* The object invariant of one cache: a slab in front of its list.         *)
LEMMA FreshSlab ==
    ASSUME NEW c \in Caches, NEW p \in Pages
    PROVE  /\ Capacity[c] \in Nat \ {0}
           /\ FreshList(c, p) \in Seq(Pages \X Nat)
           /\ Len(FreshList(c, p)) = Capacity[c]
           /\ \A i \in 1..Capacity[c] : FreshList(c, p)[i] = <<p, i>>
           /\ [page |-> p, list |-> FreshList(c, p)] \in Slab
<1>1. Capacity[c] \in Nat \ {0}
  BY KmemAssumption
<1>2. \A i \in 1..Capacity[c] : <<p, i>> \in Pages \X Nat
  BY <1>1
<1>3. FreshList(c, p) \in Seq(Pages \X Nat) /\ Len(FreshList(c, p)) = Capacity[c]
  BY <1>1, <1>2 DEF FreshList
<1>4. \A i \in 1..Capacity[c] : FreshList(c, p)[i] = <<p, i>>
  BY DEF FreshList
<1> QED
  BY <1>1, <1>3, <1>4 DEF Slab

LEMMA PushStep ==
    ASSUME NEW c \in ClientCaches, NEW st, NEW lv, NEW mx \in BOOLEAN, NEW p \in Pages,
           CacheInv(c, st, lv, {}, mx),
           \A i \in 1..Len(st) : st[i].page # p
    PROVE  CacheInv(c, <<[page |-> p, list |-> FreshList(c, p)]>> \o st, lv, {}, mx)
<1> DEFINE x == [page |-> p, list |-> FreshList(c, p)]
           t == <<x>> \o st
<1>0. c \in Caches
  BY DEF ClientCaches, Caches
<1>1. /\ Capacity[c] \in Nat \ {0} /\ x \in Slab
      /\ Len(x.list) = Capacity[c] /\ x.page = p
      /\ \A i \in 1..Capacity[c] : x.list[i] = <<p, i>>
  BY <1>0, FreshSlab
<1>2. st \in Seq(Slab) /\ Len(st) \in Nat /\ NrFree(st) \in Nat
  BY LenProperties, NrFreeType DEF CacheInv
<1> HIDE DEF x
<1>3. /\ t \in Seq(Slab) /\ Len(t) = Len(st) + 1
      /\ t[1] = x /\ \A i \in 1..Len(st) : t[i + 1] = st[i]
      /\ NrFree(t) = NrFree(st) + Len(x.list)
  BY <1>1, <1>2, PushSlab
<1> HIDE DEF t
<1>4. \A i \in 1..Len(t) : i = 1 \/ (i - 1 \in 1..Len(st) /\ t[i] = st[i - 1])
  <2> SUFFICES ASSUME NEW i \in 1..Len(t), i # 1
               PROVE  i - 1 \in 1..Len(st) /\ t[i] = st[i - 1]
    OBVIOUS
  <2>1. i - 1 \in 1..Len(st) /\ (i - 1) + 1 = i
    BY <1>2, <1>3
  <2> QED
    BY <1>3, <2>1
<1>5. \A o \in lv : o \in Objects(c) /\ PageOf(o) # p
  BY DEF CacheInv, LivePlaced
<1>6. \A i \in 1..Len(st) : \A k \in 1..Len(st[i].list) : PageOf(st[i].list[k]) # p
  <2> SUFFICES ASSUME NEW i \in 1..Len(st), NEW k \in 1..Len(st[i].list)
               PROVE  PageOf(st[i].list[k]) # p
    OBVIOUS
  <2>1. PICK j \in i..Len(st) : st[j].page = PageOf(st[i].list[k])
    BY DEF CacheInv, Listed
  <2> QED
    BY <1>2, <2>1
<1>7. \A i, j \in 1..Len(t) : t[i].page = t[j].page => i = j
  <2> SUFFICES ASSUME NEW i \in 1..Len(t), NEW j \in 1..Len(t), t[i].page = t[j].page
               PROVE  i = j
    OBVIOUS
  <2>1. CASE i = 1
    BY <1>1, <1>3, <1>4, <2>1, Zenon
  <2>2. CASE j = 1
    BY <1>1, <1>3, <1>4, <2>2, Zenon
  <2>3. CASE i # 1 /\ j # 1
    <3>0. /\ i - 1 \in 1..Len(st) /\ j - 1 \in 1..Len(st)
          /\ st[i - 1].page = st[j - 1].page
      BY <1>4, <2>3
    <3>1. i - 1 = j - 1
      <4>1. \A n, m \in 1..Len(st) : st[n].page = st[m].page => n = m
        BY DEF CacheInv
      <4> QED
        BY ONLY <3>0, <4>1, Zenon
    <3> QED
      BY <1>2, <1>3, <3>1
  <2> QED
    BY <2>1, <2>2, <2>3
<1>8. Listed(c, t, lv)
  <2> SUFFICES ASSUME NEW i \in 1..Len(t), NEW k \in 1..Len(t[i].list)
               PROVE  /\ t[i].list[k] \in Objects(c) \ lv
                      /\ \E j \in i..Len(t) : t[j].page = PageOf(t[i].list[k])
    BY Zenon DEF Listed
  <2>1. CASE i = 1
    <3>1. t[i].list[k] = <<p, k>> /\ k \in 1..Capacity[c]
      BY <1>1, <1>3, <2>1
    <3>2. <<p, k>> \in Objects(c) /\ PageOf(<<p, k>>) = p
      BY <3>1 DEF Objects, PageOf
    <3>3. 1 \in i..Len(t)
      BY <1>2, <1>3, <2>1
    <3> QED
      BY <1>1, <1>3, <1>5, <3>1, <3>2, <3>3, Zenon
  <2>2. CASE i # 1
    <3>1. /\ i - 1 \in 1..Len(st) /\ t[i] = st[i - 1]
          /\ st[i - 1].list[k] \in Objects(c) \ lv
          /\ \E j \in (i - 1)..Len(st) : st[j].page = PageOf(st[i - 1].list[k])
      BY <1>4, <2>2 DEF CacheInv, Listed
    <3>2. PICK j \in (i - 1)..Len(st) : st[j].page = PageOf(st[i - 1].list[k])
      BY <3>1
    <3>3. j + 1 \in i..Len(t) /\ t[j + 1] = st[j]
      BY <1>2, <1>3, <3>1
    <3> QED
      BY <3>1, <3>2, <3>3
  <2> QED
    BY <2>1, <2>2
<1>9. ListedOnce(t)
  <2> SUFFICES ASSUME NEW i \in 1..Len(t), NEW j \in 1..Len(t),
                      NEW k \in 1..Len(t[i].list), NEW l \in 1..Len(t[j].list),
                      t[i].list[k] = t[j].list[l]
               PROVE  i = j /\ k = l
    BY DEF ListedOnce
  <2>1. CASE i = 1 /\ j = 1
    BY <1>1, <1>3, <2>1
  <2>2. CASE i = 1 /\ j # 1
    <3>1. PageOf(t[i].list[k]) = p
      BY <1>1, <1>3, <2>2 DEF PageOf
    <3>2. j - 1 \in 1..Len(st) /\ t[j] = st[j - 1]
      BY <1>4, <2>2, Zenon
    <3> QED
      BY <1>6, <3>1, <3>2, Zenon
  <2>3. CASE i # 1 /\ j = 1
    <3>1. PageOf(t[j].list[l]) = p
      BY <1>1, <1>3, <2>3 DEF PageOf
    <3>2. i - 1 \in 1..Len(st) /\ t[i] = st[i - 1]
      BY <1>4, <2>3, Zenon
    <3> QED
      BY <1>6, <3>1, <3>2, Zenon
  <2>4. CASE i # 1 /\ j # 1
    <3>0. /\ i - 1 \in 1..Len(st) /\ t[i] = st[i - 1]
          /\ j - 1 \in 1..Len(st) /\ t[j] = st[j - 1]
      BY <1>4, <2>4
    <3>1. i - 1 = j - 1 /\ k = l
      <4>1. ListedOnce(st)
        BY DEF CacheInv
      <4>2. \A n \in 1..Len(st[i - 1].list), m \in 1..Len(st[j - 1].list) :
               st[i - 1].list[n] = st[j - 1].list[m] => i - 1 = j - 1 /\ n = m
        BY ONLY <3>0, <4>1, Zenon DEF ListedOnce
      <4>3. /\ k \in 1..Len(st[i - 1].list) /\ l \in 1..Len(st[j - 1].list)
            /\ st[i - 1].list[k] = st[j - 1].list[l]
        BY <3>0, Zenon
      <4> QED
        BY ONLY <4>2, <4>3, Zenon
    <3> QED
      BY <1>2, <1>3, <3>1
  <2> QED
    BY <2>1, <2>2, <2>3, <2>4
<1>10. LivePlaced(t, lv, {}, mx)
  <2> SUFFICES ASSUME NEW o \in lv
               PROVE  \E j \in 1..Len(t) : t[j].page = PageOf(o)
    BY DEF LivePlaced
  <2>1. PICK j \in 1..Len(st) : st[j].page = PageOf(o)
    BY DEF CacheInv, LivePlaced
  <2>2. j + 1 \in 1..Len(t) /\ t[j + 1] = st[j]
    BY <1>2, <1>3
  <2> QED
    BY <2>1, <2>2
<1>11. ~mx => OwnLists(c, t, lv)
  <2> SUFFICES ASSUME ~mx, NEW i \in 1..Len(t)
               PROVE  /\ \A k \in 1..Len(t[i].list) : PageOf(t[i].list[k]) = t[i].page
                      /\ \A n \in 1..Capacity[c] :
                            \/ <<t[i].page, n>> \in lv
                            \/ \E k \in 1..Len(t[i].list) : t[i].list[k] = <<t[i].page, n>>
    BY Zenon DEF OwnLists
  <2>1. CASE i = 1
    BY <1>1, <1>3, <2>1 DEF PageOf
  <2>2. CASE i # 1
    <3>1. OwnLists(c, st, lv)
      BY DEF CacheInv
    <3>2. i - 1 \in 1..Len(st) /\ t[i] = st[i - 1]
      BY <1>4, <2>2
    <3>3. /\ \A k \in 1..Len(st[i - 1].list) : PageOf(st[i - 1].list[k]) = st[i - 1].page
          /\ \A n \in 1..Capacity[c] :
                \/ <<st[i - 1].page, n>> \in lv
                \/ \E k \in 1..Len(st[i - 1].list) : st[i - 1].list[k] = <<st[i - 1].page, n>>
      BY <3>1, <3>2, Zenon DEF OwnLists
    <3> QED
      BY <3>2, <3>3, Zenon
  <2> QED
    BY <2>1, <2>2, Zenon
<1>12. Cardinality(lv) + NrFree(t) = Capacity[c] * Len(t)
  <2>1. Cardinality(lv) \in Nat
    BY FS_CardinalityType DEF CacheInv
  <2>2. Capacity[c] * (Len(st) + 1) = Capacity[c] * Len(st) + Capacity[c]
    BY <1>1, <1>2, TimesSucc, Zenon
  <2>3. Cardinality(lv) + NrFree(st) = Capacity[c] * Len(st)
    BY DEF CacheInv
  <2> QED
    BY <1>1, <1>2, <1>3, <2>1, <2>2, <2>3
<1>13. CacheInv(c, t, lv, {}, mx)
  BY <1>3, <1>7, <1>8, <1>9, <1>10, <1>11, <1>12 DEF CacheInv
<1> QED
  BY <1>13 DEF t, x

LEMMA OnlyListing ==
    ASSUME NEW st, ListedOnce(st), NEW i \in 1..Len(st), NEW j \in 1..Len(st),
           NEW k \in 1..Len(st[i].list), NEW l \in 1..Len(st[j].list),
           st[i].list[k] = st[j].list[l]
    PROVE  i = j /\ k = l
  BY DEF ListedOnce

(* The first slab's first free object taken.                               *)
WithList(st, list) == [st EXCEPT ![1].list = list]

FirstListSet(st, list, t) ==
    /\ t \in Seq(Slab) /\ Len(t) = Len(st) /\ t # << >> /\ Len(st) \in Nat \ {0}
    /\ t[1].list = list /\ \A i \in 2..Len(st) : t[i] = st[i]
    /\ \A i \in 1..Len(st) : t[i].page = st[i].page
    /\ NrFree(t) = (NrFree(st) - Len(st[1].list)) + Len(list)
    /\ NrFree(st) \in Nat /\ Len(st[1].list) \in Nat /\ Len(list) \in Nat
    /\ st[1] \in Slab

LEMMA WithListIs ==
    ASSUME NEW st \in Seq(Slab), st # << >>, NEW list \in Seq(Pages \X Nat)
    PROVE  FirstListSet(st, list, WithList(st, list))
<1> DEFINE x == [st[1] EXCEPT !.list = list]
           t == WithList(st, list)
<1>1. Len(st) \in Nat \ {0} /\ st[1] \in Slab /\ Len(list) \in Nat
  BY EmptySeq, ElementOfSeq, LenProperties
<1>2. x \in Slab /\ x.list = list /\ x.page = st[1].page
  BY <1>1, Zenon DEF Slab
<1>7. t = [st EXCEPT ![1] = x]
  BY Zenon DEF WithList
<1> HIDE DEF x, t
<1>3. /\ t \in Seq(Slab) /\ Len(t) = Len(st) /\ t # << >>
      /\ t[1] = x /\ \A i \in 2..Len(st) : t[i] = st[i]
      /\ NrFree(t) = (NrFree(st) - Len(st[1].list)) + Len(x.list)
  <2>1. FirstSlabSet(st, x, t)
    BY <1>2, <1>7, SetFirst, Zenon
  <2> QED
    BY <2>1, Zenon DEF FirstSlabSet
<1>4. \A i \in 1..Len(st) : t[i].page = st[i].page
  <2>1. \A i \in 1..Len(st) : i = 1 \/ i \in 2..Len(st)
    BY <1>1
  <2>2. t[1].page = st[1].page
    BY <1>2, <1>3
  <2> QED
    BY <1>3, <2>1, <2>2
<1>5. NrFree(st) \in Nat /\ Len(st[1].list) \in Nat
  BY <1>1, NrFreeType, ListLengthsType
<1> QED
  BY <1>1, <1>2, <1>3, <1>4, <1>5 DEF FirstListSet, t

LEMMA TakeStep ==
    ASSUME NEW c \in ClientCaches, NEW st, NEW lv, NEW mx \in BOOLEAN,
           CacheInv(c, st, lv, {}, mx), st # << >>, st[1].list # << >>
    PROVE  CacheInv(c, WithList(st, Tail(st[1].list)), lv \union {Head(st[1].list)}, {}, mx)
<1> DEFINE list == st[1].list
           o == Head(list)
           t == WithList(st, Tail(list))
<1>0. st \in Seq(Slab) /\ st[1] \in Slab
  BY EmptySeq, ElementOfSeq DEF CacheInv
<1>1. /\ list \in Seq(Pages \X Nat) /\ Tail(list) \in Seq(Pages \X Nat)
      /\ Len(list) \in Nat \ {0} /\ Len(Tail(list)) = Len(list) - 1
      /\ \A k \in 1..Len(Tail(list)) : Tail(list)[k] = list[k + 1]
      /\ o = list[1]
  BY <1>0, HeadTailProperties, EmptySeq DEF Slab
<1>t. t = WithList(st, Tail(list))
  OBVIOUS
<1> HIDE DEF t
<1>2. /\ t \in Seq(Slab) /\ Len(t) = Len(st) /\ Len(st) \in Nat \ {0}
      /\ t[1].list = Tail(list) /\ \A i \in 2..Len(st) : t[i] = st[i]
      /\ \A i \in 1..Len(st) : t[i].page = st[i].page
      /\ NrFree(t) = (NrFree(st) - Len(list)) + Len(Tail(list))
      /\ NrFree(st) \in Nat
  <2>1. FirstListSet(st, Tail(list), t)
    BY <1>0, <1>1, <1>t, WithListIs, Zenon
  <2> QED
    BY <2>1, Zenon DEF FirstListSet
<1>3. \A i \in 1..Len(t) : \A k \in 1..Len(t[i].list) :
          \E l \in 1..Len(st[i].list) : /\ t[i].list[k] = st[i].list[l]
                                        /\ l = IF i = 1 THEN k + 1 ELSE k
  <2> SUFFICES ASSUME NEW i \in 1..Len(t), NEW k \in 1..Len(t[i].list)
               PROVE  \E l \in 1..Len(st[i].list) : /\ t[i].list[k] = st[i].list[l]
                                                    /\ l = IF i = 1 THEN k + 1 ELSE k
    OBVIOUS
  <2>1. CASE i = 1
    <3>0. t[i].list = Tail(list) /\ st[i].list = list
      BY <1>2, <2>1
    <3>1. k + 1 \in 1..Len(st[i].list) /\ t[i].list[k] = st[i].list[k + 1]
      <4> HIDE DEF list
      <4> QED
        BY <1>1, <3>0
    <3> QED
      BY <2>1, <3>1
  <2>2. CASE i # 1
    <3>1. t[i] = st[i]
      BY <1>2, <2>2
    <3> QED
      BY <2>2, <3>1
  <2> QED
    BY <2>1, <2>2
<1>4. Listed(c, st, lv) /\ ListedOnce(st) /\ LivePlaced(st, lv, {}, mx)
  BY DEF CacheInv
<1>5. /\ 1 \in 1..Len(st) /\ 1 \in 1..Len(st[1].list)
      /\ o \in Objects(c) /\ o \notin lv
      /\ \E j \in 1..Len(st) : st[j].page = PageOf(o)
  <2>1. 1 \in 1..Len(st) /\ 1 \in 1..Len(st[1].list)
    BY <1>1, <1>2
  <2> QED
    BY ONLY <1>1, <1>4, <2>1 DEF Listed
<1> HIDE DEF o, list
<1>6. Listed(c, t, lv \union {o})
  <2> SUFFICES ASSUME NEW i \in 1..Len(t), NEW k \in 1..Len(t[i].list)
               PROVE  /\ t[i].list[k] \in Objects(c) \ (lv \union {o})
                      /\ \E j \in i..Len(t) : t[j].page = PageOf(t[i].list[k])
    BY DEF Listed
  <2>1. PICK l \in 1..Len(st[i].list) : /\ t[i].list[k] = st[i].list[l]
                                        /\ l = IF i = 1 THEN k + 1 ELSE k
    BY <1>3
  <2>2. /\ st[i].list[l] \in Objects(c) \ lv
        /\ \E j \in i..Len(st) : st[j].page = PageOf(st[i].list[l])
    BY <1>2, <1>4 DEF Listed
  <2>3. st[i].list[l] # o
    <3>1. i # 1 \/ l # 1
      BY <2>1
    <3> QED
      BY <1>1, <1>2, <1>4, <1>5, <3>1 DEF ListedOnce, list
  <2>4. PICK j \in i..Len(st) : st[j].page = PageOf(st[i].list[l])
    BY <2>2
  <2>5. j \in i..Len(t) /\ t[j].page = st[j].page
    BY <1>2
  <2> QED
    BY <2>1, <2>2, <2>3, <2>4, <2>5
<1>7. ListedOnce(t)
  <2> SUFFICES ASSUME NEW i \in 1..Len(t), NEW j \in 1..Len(t),
                      NEW k \in 1..Len(t[i].list), NEW l \in 1..Len(t[j].list),
                      t[i].list[k] = t[j].list[l]
               PROVE  i = j /\ k = l
    BY DEF ListedOnce
  <2>1. PICK k1 \in 1..Len(st[i].list) : /\ t[i].list[k] = st[i].list[k1]
                                         /\ k1 = IF i = 1 THEN k + 1 ELSE k
    BY <1>3, Zenon
  <2>2. PICK l1 \in 1..Len(st[j].list) : /\ t[j].list[l] = st[j].list[l1]
                                         /\ l1 = IF j = 1 THEN l + 1 ELSE l
    BY <1>3, Zenon
  <2>3. i = j /\ k1 = l1
    <3>1. i \in 1..Len(st) /\ j \in 1..Len(st) /\ st[i].list[k1] = st[j].list[l1]
      BY <1>2, <2>1, <2>2, Zenon
    <3> QED
      BY ONLY <1>4, <3>1, k1 \in 1..Len(st[i].list), l1 \in 1..Len(st[j].list),
              OnlyListing
  <2> QED
    BY <2>1, <2>2, <2>3
<1>8. LivePlaced(t, lv \union {o}, {}, mx)
  <2> SUFFICES ASSUME NEW b \in lv \union {o}
               PROVE  \E j \in 1..Len(t) : t[j].page = PageOf(b)
    BY DEF LivePlaced
  <2>1. PICK j \in 1..Len(st) : st[j].page = PageOf(b)
    BY <1>4, <1>5 DEF LivePlaced
  <2> QED
    BY <1>2, <2>1
<1>9. ~mx => OwnLists(c, t, lv \union {o})
  <2> SUFFICES ASSUME ~mx, NEW i \in 1..Len(t)
               PROVE  /\ \A k \in 1..Len(t[i].list) : PageOf(t[i].list[k]) = t[i].page
                      /\ \A n \in 1..Capacity[c] :
                            \/ <<t[i].page, n>> \in lv \union {o}
                            \/ \E k \in 1..Len(t[i].list) : t[i].list[k] = <<t[i].page, n>>
    BY Zenon DEF OwnLists
  <2>1. OwnLists(c, st, lv) /\ i \in 1..Len(st) /\ t[i].page = st[i].page
    BY <1>2 DEF CacheInv
  <2>2. ASSUME NEW k \in 1..Len(t[i].list)
        PROVE  PageOf(t[i].list[k]) = t[i].page
    <3>1. PICK l \in 1..Len(st[i].list) : t[i].list[k] = st[i].list[l]
      BY <1>3, Zenon
    <3> QED
      BY <2>1, <3>1 DEF OwnLists
  <2>3. ASSUME NEW n \in 1..Capacity[c], <<t[i].page, n>> \notin lv \union {o}
        PROVE  \E k \in 1..Len(t[i].list) : t[i].list[k] = <<t[i].page, n>>
    <3>1. PICK k \in 1..Len(st[i].list) : st[i].list[k] = <<st[i].page, n>>
      BY <2>1, <2>3, Zenon DEF OwnLists
    <3>2. CASE i = 1
      <4>1. k # 1
        BY <1>1, <2>1, <2>3, <3>1, <3>2 DEF list
      <4>2. k - 1 \in 1..Len(Tail(list)) /\ (k - 1) + 1 = k
        BY <1>1, <3>2, <4>1 DEF list
      <4>3. t[i].list[k - 1] = st[i].list[k]
        BY <1>1, <1>2, <3>2, <4>2, Zenon DEF list
      <4> QED
        BY <1>2, <2>1, <3>1, <3>2, <4>2, <4>3, Zenon
    <3>3. CASE i # 1
      <4>1. t[i] = st[i]
        BY <1>2, <3>3
      <4> QED
        BY <3>1, <4>1
    <3> QED
      BY <3>2, <3>3
  <2> QED
    BY <2>2, <2>3, Zenon
<1>10. /\ lv \union {o} \subseteq Objects(c) /\ IsFiniteSet(lv \union {o})
       /\ Cardinality(lv \union {o}) = Cardinality(lv) + 1 /\ Cardinality(lv) \in Nat
  BY <1>5, FS_AddElement, FS_CardinalityType DEF CacheInv
<1>11. Cardinality(lv \union {o}) + NrFree(t) = Capacity[c] * Len(t)
  <2>1. Cardinality(lv) + NrFree(st) = Capacity[c] * Len(st)
    BY DEF CacheInv
  <2> QED
    BY <1>1, <1>2, <1>10, <2>1
<1>12. \A i, j \in 1..Len(t) : t[i].page = t[j].page => i = j
  BY <1>2 DEF CacheInv
<1>13. CacheInv(c, t, lv \union {o}, {}, mx)
  BY <1>2, <1>6, <1>7, <1>8, <1>9, <1>10, <1>11, <1>12 DEF CacheInv
<1> QED
  BY <1>13 DEF t, o, list

(* An object in use put in front of the first slab's list.                 *)
LEMMA PutStep ==
    ASSUME NEW c \in ClientCaches, NEW st, NEW lv, NEW mx \in BOOLEAN, NEW o,
           CacheInv(c, st, lv, {}, mx), st # << >>, o \in lv,
           PageOf(o) # st[1].page => mx
    PROVE  CacheInv(c, WithList(st, <<o>> \o st[1].list), lv \ {o}, {}, mx)
<1> DEFINE list == st[1].list
           put == <<o>> \o list
           t == WithList(st, put)
<1>0. st \in Seq(Slab) /\ st[1] \in Slab /\ o \in Objects(c) /\ o \in Pages \X Nat
  <2>1. st \in Seq(Slab) /\ st[1] \in Slab /\ o \in Objects(c)
    BY EmptySeq, ElementOfSeq DEF CacheInv
  <2>2. Capacity[c] \in Nat
    BY KmemAssumption DEF ClientCaches, Caches
  <2> QED
    BY <2>1, <2>2 DEF Objects
<1>1. list \in Seq(Pages \X Nat) /\ Len(list) \in Nat
  BY <1>0, LenProperties DEF Slab
<1> HIDE DEF list
<1>2. /\ put \in Seq(Pages \X Nat) /\ Len(put) = Len(list) + 1
      /\ put[1] = o /\ \A k \in 1..Len(list) : put[k + 1] = list[k]
  <2>1. <<o>> \in Seq(Pages \X Nat) /\ Len(<<o>>) = 1 /\ <<o>>[1] = o
    BY <1>0
  <2>2. /\ put \in Seq(Pages \X Nat) /\ Len(put) = 1 + Len(list)
        /\ \A k \in 1..(1 + Len(list)) : put[k] = IF k <= 1 THEN <<o>>[k] ELSE list[k - 1]
    BY <1>1, <2>1, ConcatProperties
  <2> HIDE DEF put
  <2>3. put[1] = o
    <3>1. 1 \in 1..(1 + Len(list))
      BY <1>1
    <3> QED
      BY <2>1, <2>2, <3>1
  <2>4. ASSUME NEW k \in 1..Len(list) PROVE put[k + 1] = list[k]
    <3>1. k + 1 \in 1..(1 + Len(list)) /\ (k + 1) - 1 = k /\ ~(k + 1 <= 1)
      BY <1>1
    <3> QED
      BY <2>2, <3>1
  <2> QED
    BY <1>1, <2>2, <2>3, <2>4
<1> HIDE DEF put
<1>t. t = WithList(st, put)
  OBVIOUS
<1> HIDE DEF t
<1>3. /\ t \in Seq(Slab) /\ Len(t) = Len(st) /\ Len(st) \in Nat \ {0}
      /\ t[1].list = put /\ \A i \in 2..Len(st) : t[i] = st[i]
      /\ \A i \in 1..Len(st) : t[i].page = st[i].page
      /\ NrFree(t) = (NrFree(st) - Len(list)) + Len(put)
      /\ NrFree(st) \in Nat
  <2>1. FirstListSet(st, put, t)
    BY <1>0, <1>2, <1>t, WithListIs, Zenon
  <2> QED
    BY <2>1, Zenon DEF FirstListSet, list
<1>4. Listed(c, st, lv) /\ ListedOnce(st) /\ LivePlaced(st, lv, {}, mx)
  BY DEF CacheInv
<1>5. \A i \in 1..Len(t) : \A k \in 1..Len(t[i].list) :
          \/ i = 1 /\ k = 1 /\ t[i].list[k] = o
          \/ \E l \in 1..Len(st[i].list) : /\ t[i].list[k] = st[i].list[l]
                                           /\ l = IF i = 1 THEN k - 1 ELSE k
  <2> SUFFICES ASSUME NEW i \in 1..Len(t), NEW k \in 1..Len(t[i].list)
               PROVE  \/ i = 1 /\ k = 1 /\ t[i].list[k] = o
                      \/ \E l \in 1..Len(st[i].list) : /\ t[i].list[k] = st[i].list[l]
                                                       /\ l = IF i = 1 THEN k - 1 ELSE k
    OBVIOUS
  <2>1. CASE i = 1 /\ k = 1
    BY <1>2, <1>3, <2>1
  <2>2. CASE i = 1 /\ k # 1
    <3>0. t[i].list = put /\ st[i].list = list
      BY <1>3, <2>2 DEF list
    <3>1. k - 1 \in 1..Len(list) /\ (k - 1) + 1 = k
      BY <1>1, <1>2, <2>2, <3>0
    <3>2. put[k] = list[k - 1]
      BY <1>2, <3>1, Zenon
    <3> QED
      BY <2>2, <3>0, <3>1, <3>2
  <2>3. CASE i # 1
    <3>1. t[i] = st[i]
      BY <1>3, <2>3
    <3> QED
      BY <2>3, <3>1
  <2> QED
    BY <2>1, <2>2, <2>3
<1>6. PICK q \in 1..Len(st) : st[q].page = PageOf(o)
  BY <1>4 DEF LivePlaced
<1>7. Listed(c, t, lv \ {o})
  <2> SUFFICES ASSUME NEW i \in 1..Len(t), NEW k \in 1..Len(t[i].list)
               PROVE  /\ t[i].list[k] \in Objects(c) \ (lv \ {o})
                      /\ \E j \in i..Len(t) : t[j].page = PageOf(t[i].list[k])
    BY DEF Listed
  <2>1. CASE i = 1 /\ k = 1 /\ t[i].list[k] = o
    <3>1. q \in i..Len(t) /\ t[q].page = st[q].page
      BY <1>3, <2>1
    <3> QED
      BY <1>0, <1>6, <2>1, <3>1
  <2>2. CASE \E l \in 1..Len(st[i].list) : t[i].list[k] = st[i].list[l]
    <3>1. PICK l \in 1..Len(st[i].list) : t[i].list[k] = st[i].list[l]
      BY <2>2
    <3>2. /\ st[i].list[l] \in Objects(c) \ lv
          /\ \E j \in i..Len(st) : st[j].page = PageOf(st[i].list[l])
      BY <1>3, <1>4 DEF Listed
    <3>3. PICK j \in i..Len(st) : st[j].page = PageOf(st[i].list[l])
      BY <3>2
    <3>4. j \in i..Len(t) /\ t[j].page = st[j].page
      BY <1>3
    <3> QED
      BY <3>1, <3>2, <3>3, <3>4
  <2> QED
    BY <1>5, <2>1, <2>2
<1>8. ListedOnce(t)
  <2> SUFFICES ASSUME NEW i \in 1..Len(t), NEW j \in 1..Len(t),
                      NEW k \in 1..Len(t[i].list), NEW l \in 1..Len(t[j].list),
                      t[i].list[k] = t[j].list[l]
               PROVE  i = j /\ k = l
    BY DEF ListedOnce
  <2>0. \A i1 \in 1..Len(st) : \A k1 \in 1..Len(st[i1].list) : st[i1].list[k1] # o
    BY <1>4, Zenon DEF Listed
  <2>i. i \in 1..Len(st) /\ j \in 1..Len(st)
    BY <1>3
  <2>1. CASE i = 1 /\ k = 1 /\ t[i].list[k] = o
    <3>1. ~\E l1 \in 1..Len(st[j].list) : t[j].list[l] = st[j].list[l1]
      BY <2>0, <2>1, <2>i
    <3> QED
      BY <1>5, <2>1, <3>1, Zenon
  <2>2. CASE j = 1 /\ l = 1 /\ t[j].list[l] = o
    <3>1. ~\E k1 \in 1..Len(st[i].list) : t[i].list[k] = st[i].list[k1]
      BY <2>0, <2>2, <2>i
    <3> QED
      BY <1>5, <2>2, <3>1, Zenon
  <2>3. CASE /\ \E k1 \in 1..Len(st[i].list) : /\ t[i].list[k] = st[i].list[k1]
                                               /\ k1 = IF i = 1 THEN k - 1 ELSE k
             /\ \E l1 \in 1..Len(st[j].list) : /\ t[j].list[l] = st[j].list[l1]
                                               /\ l1 = IF j = 1 THEN l - 1 ELSE l
    <3>1. PICK k1 \in 1..Len(st[i].list) : /\ t[i].list[k] = st[i].list[k1]
                                           /\ k1 = IF i = 1 THEN k - 1 ELSE k
      BY <2>3
    <3>2. PICK l1 \in 1..Len(st[j].list) : /\ t[j].list[l] = st[j].list[l1]
                                           /\ l1 = IF j = 1 THEN l - 1 ELSE l
      BY <2>3, Zenon
    <3>3. i = j /\ k1 = l1
      <4>1. st[i].list[k1] = st[j].list[l1]
        BY <3>1, <3>2, Zenon
      <4>2. \A k2 \in 1..Len(st[i].list), l2 \in 1..Len(st[j].list) :
                st[i].list[k2] = st[j].list[l2] => i = j /\ k2 = l2
        BY ONLY <1>4, <2>i, Zenon DEF ListedOnce
      <4> QED
        BY ONLY <4>1, <4>2, Zenon
    <3>4. k \in Int /\ l \in Int
      <4>1. t[i] \in Slab /\ t[j] \in Slab
        BY <1>3, ElementOfSeq
      <4> QED
        BY <4>1, LenProperties DEF Slab
    <3> QED
      BY <3>1, <3>2, <3>3, <3>4
  <2> QED
    BY <1>5, <2>1, <2>2, <2>3, Zenon
<1>9. LivePlaced(t, lv \ {o}, {}, mx)
  BY <1>3, <1>4 DEF LivePlaced
<1>10. ~mx => OwnLists(c, t, lv \ {o})
  <2> SUFFICES ASSUME ~mx, NEW i \in 1..Len(t)
               PROVE  /\ \A k \in 1..Len(t[i].list) : PageOf(t[i].list[k]) = t[i].page
                      /\ \A n \in 1..Capacity[c] :
                            \/ <<t[i].page, n>> \in lv \ {o}
                            \/ \E k \in 1..Len(t[i].list) : t[i].list[k] = <<t[i].page, n>>
    BY Zenon DEF OwnLists
  <2>1. /\ ~mx /\ PageOf(o) = st[1].page
        /\ OwnLists(c, st, lv) /\ i \in 1..Len(st) /\ t[i].page = st[i].page
    BY <1>3 DEF CacheInv
  <2>2. ASSUME NEW k \in 1..Len(t[i].list)
        PROVE  PageOf(t[i].list[k]) = t[i].page
    <3>1. CASE i = 1 /\ k = 1 /\ t[i].list[k] = o
      BY <2>1, <3>1
    <3>2. CASE \E l \in 1..Len(st[i].list) : t[i].list[k] = st[i].list[l]
      BY <2>1, <3>2 DEF OwnLists
    <3> QED
      BY <1>5, <3>1, <3>2, Zenon
  <2>3. ASSUME NEW n \in 1..Capacity[c], <<t[i].page, n>> \notin lv \ {o}
        PROVE  \E k \in 1..Len(t[i].list) : t[i].list[k] = <<t[i].page, n>>
    <3>1. CASE <<t[i].page, n>> = o
      <4>1. i = 1
        <5>1. st[i].page = st[1].page /\ 1 \in 1..Len(st)
          BY <1>3, <2>1, <3>1 DEF PageOf
        <5> QED
          BY <2>1, <5>1 DEF CacheInv
      <4>2. 1 \in 1..Len(put)
        BY <1>1, <1>2
      <4> QED
        BY <1>2, <1>3, <3>1, <4>1, <4>2, Zenon
    <3>2. CASE <<t[i].page, n>> # o
      <4>1. PICK k \in 1..Len(st[i].list) : st[i].list[k] = <<st[i].page, n>>
        BY <2>1, <2>3, <3>2, Zenon DEF OwnLists
      <4>2. CASE i = 1
        <5>1. st[i].list = list /\ t[i].list = put
          BY <1>3, <4>2 DEF list
        <5>k. k \in 1..Len(list)
          BY <5>1
        <5>2. k + 1 \in 1..Len(put) /\ put[k + 1] = list[k]
          BY ONLY <1>1, <1>2, <5>k
        <5> QED
          BY <2>1, <4>1, <5>1, <5>2
      <4>3. CASE i # 1
        <5>1. t[i] = st[i]
          BY <1>3, <4>3
        <5> QED
          BY <4>1, <5>1
      <4> QED
        BY <4>2, <4>3
    <3> QED
      BY <3>1, <3>2
  <2> QED
    BY <2>2, <2>3, Zenon
<1>11. /\ lv \ {o} \subseteq Objects(c) /\ IsFiniteSet(lv \ {o})
       /\ Cardinality(lv \ {o}) = Cardinality(lv) - 1 /\ Cardinality(lv) \in Nat
  BY FS_RemoveElement, FS_CardinalityType DEF CacheInv
<1>12. Cardinality(lv \ {o}) + NrFree(t) = Capacity[c] * Len(t)
  <2>1. Cardinality(lv) + NrFree(st) = Capacity[c] * Len(st)
    BY DEF CacheInv
  <2> QED
    BY <1>1, <1>2, <1>3, <1>11, <2>1
<1>13. \A i, j \in 1..Len(t) : t[i].page = t[j].page => i = j
  BY <1>3 DEF CacheInv
<1>14. CacheInv(c, t, lv \ {o}, {}, mx)
  BY <1>3, <1>7, <1>8, <1>9, <1>10, <1>11, <1>12, <1>13 DEF CacheInv
<1> QED
  BY <1>14 DEF t, put, list

(* Capacity free objects of one page, each listed once, are all of them.   *)
ObjectsOfPage(c, p, list) ==
    \A k \in 1..Len(list) : list[k] \in Objects(c) /\ PageOf(list[k]) = p

NoObjectTwice(list) == \A k, l \in 1..Len(list) : list[k] = list[l] => k = l

LEMMA FullList ==
    ASSUME NEW c \in Caches, NEW p, NEW list \in Seq(Pages \X Nat), Len(list) = Capacity[c],
           ObjectsOfPage(c, p, list), NoObjectTwice(list)
    PROVE  \A n \in 1..Capacity[c] : \E k \in 1..Len(list) : list[k] = <<p, n>>
<1> DEFINE N == Capacity[c]
           T == {p} \X (1..N)
<1>1. N \in Nat \ {0}
  BY KmemAssumption
<1>2. list \in [1..N -> T]
  <2>1. list \in [1..N -> Pages \X Nat]
    BY LenProperties
  <2>2. \A k \in 1..N : list[k] \in T
    BY DEF Objects, PageOf, ObjectsOfPage
  <2> QED
    BY <2>1, <2>2
<1>3. list \in Injection(1..N, T)
  BY <1>2 DEF Injection, IsInjective, NoObjectTwice
<1> HIDE DEF N
<1>4. IsFiniteSet(1..N) /\ Cardinality(1..N) = N
  <2>1. 1 \in Int /\ N \in Int /\ ~(1 > N) /\ N - 1 + 1 = N
    BY <1>1
  <2> QED
    BY <2>1, FS_Interval, Zenon
<1>5. IsFiniteSet(T) /\ Cardinality(T) = N
  <2>1. IsFiniteSet({p}) /\ Cardinality({p}) = 1
    BY FS_Singleton, Zenon
  <2>2. IsFiniteSet(T) /\ Cardinality(T) = Cardinality({p}) * Cardinality(1..N)
    <3>1. IsFiniteSet({p}) /\ IsFiniteSet(1..N)
      BY <1>4, <2>1, Zenon
    <3> QED
      BY ONLY <3>1, FS_Product, Zenon
  <2>3. Cardinality(T) = 1 * N
    BY ONLY <1>4, <2>1, <2>2, Zenon
  <2> HIDE DEF T
  <2> QED
    BY ONLY <1>1, <2>2, <2>3
<1>6. list \in Surjection(1..N, T)
  BY <1>3, <1>4, <1>5, FS_Injection
<1>7. \A n \in 1..N : <<p, n>> \in T
  OBVIOUS
<1> QED
  BY <1>6, <1>7, Zenon DEF Surjection, N

(* The first slab released with all of its objects on its list.            *)
LEMMA PopStep ==
    ASSUME NEW c \in ClientCaches, NEW st, NEW lv, NEW mx \in BOOLEAN,
           CacheInv(c, st, lv, {}, mx), Len(st) > 1, Len(st[1].list) = Capacity[c]
    PROVE  CacheInv(c, Tail(st), lv, {st[1].page}, mx)
<1> DEFINE t == Tail(st)
<1>1. /\ st \in Seq(Slab) /\ st # << >> /\ Len(st) \in Nat /\ c \in Caches
      /\ Capacity[c] \in Nat \ {0} /\ st[1] \in Slab
  BY LenProperties, EmptySeq, ElementOfSeq, KmemAssumption DEF CacheInv, ClientCaches, Caches
<1>2. /\ t \in Seq(Slab) /\ Len(t) = Len(st) - 1 /\ Len(t) \in Nat
      /\ \A i \in 1..Len(t) : t[i] = st[i + 1] /\ i + 1 \in 1..Len(st)
  <2>1. /\ t \in Seq(Slab) /\ Len(t) = Len(st) - 1
        /\ \A i \in 1..Len(t) : t[i] = st[i + 1]
    BY <1>1, HeadTailProperties
  <2> HIDE DEF t
  <2> QED
    BY <1>1, <2>1
<1> HIDE DEF t
<1>3. Listed(c, st, lv) /\ ListedOnce(st) /\ LivePlaced(st, lv, {}, mx)
  BY DEF CacheInv
<1>4. Listed(c, t, lv)
  <2> SUFFICES ASSUME NEW i \in 1..Len(t), NEW k \in 1..Len(t[i].list)
               PROVE  /\ t[i].list[k] \in Objects(c) \ lv
                      /\ \E j \in i..Len(t) : t[j].page = PageOf(t[i].list[k])
    BY DEF Listed
  <2>1. /\ t[i] = st[i + 1] /\ st[i + 1].list[k] \in Objects(c) \ lv
        /\ \E j \in (i + 1)..Len(st) : st[j].page = PageOf(st[i + 1].list[k])
    BY <1>2, <1>3 DEF Listed
  <2>2. PICK j \in (i + 1)..Len(st) : st[j].page = PageOf(st[i + 1].list[k])
    BY <2>1
  <2>3. j - 1 \in i..Len(t) /\ j - 1 \in 1..Len(t) /\ (j - 1) + 1 = j
    BY <1>1, <1>2
  <2>4. t[j - 1] = st[j]
    BY <1>2, <2>3
  <2> QED
    BY <2>1, <2>2, <2>3, <2>4, Zenon
<1>5. ListedOnce(t)
  <2> SUFFICES ASSUME NEW i \in 1..Len(t), NEW j \in 1..Len(t),
                      NEW k \in 1..Len(t[i].list), NEW l \in 1..Len(t[j].list),
                      t[i].list[k] = t[j].list[l]
               PROVE  i = j /\ k = l
    BY DEF ListedOnce
  <2>1. PICK a \in 1..Len(st) : a = i + 1 /\ t[i] = st[a]
    BY <1>2, Zenon
  <2>2. PICK b \in 1..Len(st) : b = j + 1 /\ t[j] = st[b]
    BY <1>2, Zenon
  <2>3. a = b /\ k = l
    <3>1. /\ k \in 1..Len(st[a].list) /\ l \in 1..Len(st[b].list)
          /\ st[a].list[k] = st[b].list[l]
      BY <2>1, <2>2, Zenon
    <3> QED
      BY ONLY <1>3, <3>1, a \in 1..Len(st), b \in 1..Len(st), OnlyListing
  <2> QED
    BY <1>2, <2>1, <2>2, <2>3
<1>6. ASSUME NEW o \in lv
      PROVE  \/ \E j \in 1..Len(t) : t[j].page = PageOf(o)
             \/ mx /\ PageOf(o) \in {st[1].page}
  <2>1. PICK j \in 1..Len(st) : st[j].page = PageOf(o)
    BY <1>3 DEF LivePlaced
  <2>2. CASE j # 1
    <3>1. j - 1 \in 1..Len(t) /\ (j - 1) + 1 = j
      BY <1>1, <1>2, <2>2
    <3>2. t[j - 1] = st[j]
      BY <1>2, <3>1
    <3> QED
      BY <2>1, <3>1, <3>2
  <2>3. CASE j = 1 /\ ~mx
    <3>1. OwnLists(c, st, lv) /\ 1 \in 1..Len(st)
      BY <1>1, <2>3 DEF CacheInv
    <3>2. st[1].list \in Seq(Pages \X Nat)
      BY <1>1 DEF Slab
    <3>3. \A k \in 1..Len(st[1].list) :
              st[1].list[k] \in Objects(c) \ lv /\ PageOf(st[1].list[k]) = st[1].page
      BY <1>3, <3>1, Zenon DEF OwnLists, Listed
    <3>4. ObjectsOfPage(c, st[1].page, st[1].list) /\ NoObjectTwice(st[1].list)
      <4>1. ObjectsOfPage(c, st[1].page, st[1].list)
        BY <3>3, Zenon DEF ObjectsOfPage
      <4>2. NoObjectTwice(st[1].list)
        BY <1>3, <3>1, Zenon DEF ListedOnce, NoObjectTwice
      <4> QED
        BY <4>1, <4>2, Zenon
    <3>5. o \in Objects(c) /\ o[2] \in 1..Capacity[c] /\ o = <<st[1].page, o[2]>>
      BY <2>1, <2>3 DEF CacheInv, Objects, PageOf
    <3>6. \E k \in 1..Len(st[1].list) : st[1].list[k] = <<st[1].page, o[2]>>
      <4> DEFINE list == st[1].list
                 p == st[1].page
      <4>0. /\ list \in Seq(Pages \X Nat) /\ Len(list) = Capacity[c]
            /\ ObjectsOfPage(c, p, list) /\ NoObjectTwice(list)
        BY <3>2, <3>4, Zenon
      <4> HIDE DEF list, p
      <4>1. \A n \in 1..Capacity[c] : \E k \in 1..Len(list) : list[k] = <<p, n>>
        BY <1>1, <4>0, FullList, Zenon
      <4> QED
        BY <3>5, <4>1, Zenon DEF list, p
    <3> QED
      BY <3>3, <3>5, <3>6, Zenon
  <2>4. CASE j = 1 /\ mx
    BY <2>1, <2>4
  <2> QED
    BY <2>2, <2>3, <2>4
<1>7. LivePlaced(t, lv, {st[1].page}, mx)
  BY <1>6 DEF LivePlaced
<1>8. ~mx => OwnLists(c, t, lv)
  <2> SUFFICES ASSUME ~mx, NEW i \in 1..Len(t)
               PROVE  /\ \A k \in 1..Len(t[i].list) : PageOf(t[i].list[k]) = t[i].page
                      /\ \A n \in 1..Capacity[c] :
                            \/ <<t[i].page, n>> \in lv
                            \/ \E k \in 1..Len(t[i].list) : t[i].list[k] = <<t[i].page, n>>
    BY Zenon DEF OwnLists
  <2>1. OwnLists(c, st, lv) /\ i + 1 \in 1..Len(st) /\ t[i] = st[i + 1]
    BY <1>2 DEF CacheInv
  <2>2. /\ \A k \in 1..Len(st[i + 1].list) : PageOf(st[i + 1].list[k]) = st[i + 1].page
        /\ \A n \in 1..Capacity[c] :
              \/ <<st[i + 1].page, n>> \in lv
              \/ \E k \in 1..Len(st[i + 1].list) : st[i + 1].list[k] = <<st[i + 1].page, n>>
    BY <2>1, Zenon DEF OwnLists
  <2> QED
    BY <2>1, <2>2, Zenon
<1>9. Cardinality(lv) + NrFree(t) = Capacity[c] * Len(t)
  <2>1. Cardinality(lv) + NrFree(st) = Capacity[c] * Len(st) /\ Cardinality(lv) \in Nat
    BY FS_CardinalityType DEF CacheInv
  <2>2. NrFree(st) = NrFree(t) + Capacity[c] /\ NrFree(t) \in Nat
    BY <1>1, <1>2, NrFreeHead, NrFreeType, Zenon DEF t
  <2>3. Capacity[c] * (Len(t) + 1) = Capacity[c] * Len(t) + Capacity[c]
        /\ Capacity[c] * Len(t) \in Nat
    BY <1>1, <1>2, TimesSucc, Zenon
  <2>4. Capacity[c] * Len(st) = Capacity[c] * Len(t) + Capacity[c]
    <3>1. Len(t) + 1 = Len(st)
      BY <1>1, <1>2
    <3> QED
      BY <2>3, <3>1
  <2>5. Capacity[c] \in Nat
    BY KmemAssumption
  <2>6. Cardinality(lv) + (NrFree(t) + Capacity[c]) = Capacity[c] * Len(t) + Capacity[c]
    BY ONLY <2>1, <2>2, <2>4, Zenon
  <2> DEFINE inUse == Cardinality(lv)
             left == NrFree(t)
             room == Capacity[c] * Len(t)
             cap == Capacity[c]
  <2>7. /\ inUse \in Nat /\ left \in Nat /\ room \in Nat /\ cap \in Nat
        /\ inUse + (left + cap) = room + cap
    BY ONLY <2>1, <2>2, <2>3, <2>5, <2>6, Zenon
  <2>8. inUse + left = room
    <3> HIDE DEF inUse, left, room, cap
    <3> QED
      BY ONLY <2>7
  <2> QED
    BY ONLY <2>8, Zenon
<1>10. \A i, j \in 1..Len(t) : t[i].page = t[j].page => i = j
  <2> SUFFICES ASSUME NEW i \in 1..Len(t), NEW j \in 1..Len(t), t[i].page = t[j].page
               PROVE  i = j
    OBVIOUS
  <2>1. i + 1 = j + 1
    BY <1>2 DEF CacheInv
  <2> QED
    BY <1>2, <2>1
<1>11. CacheInv(c, t, lv, {st[1].page}, mx)
  BY <1>2, <1>4, <1>5, <1>7, <1>8, <1>9, <1>10 DEF CacheInv
<1> QED
  BY <1>11 DEF t

(* More freed pages change nothing, and without a corrupt object the freed *)
(* pages do not matter.                                                    *)
LEMMA Weaken ==
    ASSUME NEW c, NEW st, NEW lv, NEW mx \in BOOLEAN, NEW nm \in BOOLEAN, mx => nm,
           NEW freed, NEW more, freed \subseteq more, CacheInv(c, st, lv, freed, mx)
    PROVE  CacheInv(c, st, lv, more, nm)
<1>1. LivePlaced(st, lv, more, nm)
  BY DEF CacheInv, LivePlaced
<1> QED
  BY <1>1 DEF CacheInv

LEMMA Uncorrupted ==
    ASSUME NEW c, NEW st, NEW lv, NEW mx \in BOOLEAN, NEW freed,
           CacheInv(c, st, lv, freed, mx), \A o \in lv : PageOf(o) \notin freed
    PROVE  CacheInv(c, st, lv, {}, mx)
<1>1. LivePlaced(st, lv, {}, mx)
  BY DEF CacheInv, LivePlaced
<1> QED
  BY <1>1 DEF CacheInv
-----------------------------------------------------------------------------
(* Pages: a new slab's page was no slab's, and leaves the free ones.       *)
NoSlabHas(m, p) == \A d \in Caches : \A i \in 1..Len(m.slabs[d]) : m.slabs[d][i].page # p

SlabsType(m) == \A c \in Caches : /\ m.slabs[c] \in Seq(Slab)
                                  /\ Len(m.slabs[c]) \in Nat
                                  /\ DOMAIN m.slabs[c] = 1..Len(m.slabs[c])

LEMMA MemTypes ==
    ASSUME NEW m, MemType(m)
    PROVE  SlabsType(m)
<1>1. \A c \in Caches : m.slabs[c] \in Seq(Slab)
  BY DEF MemType
<1> QED
  BY <1>1, LenProperties DEF SlabsType

Replaced(m, c, st, free, r) ==
    /\ MemType(r)
    /\ r.pages = free
    /\ r.slabs = [m.slabs EXCEPT ![c] = st]

LEMMA MemExcept ==
    ASSUME NEW m, MemType(m), NEW c \in Caches, NEW st \in Seq(Slab), NEW free \in SUBSET Pages
    PROVE  /\ Replaced(m, c, st, free, [m EXCEPT !.pages = free, !.slabs[c] = st])
           /\ Replaced(m, c, st, m.pages, [m EXCEPT !.slabs[c] = st])
  BY Zenon DEF MemType, Replaced

(* One cache's slabs replaced, with no page that another owner has.        *)
Fits(m, c, st, free) ==
    /\ \A i, j \in 1..Len(st) : st[i].page = st[j].page => i = j
    /\ \A i \in 1..Len(st) : st[i].page \notin free
    /\ \A d \in Caches \ {c} : \A j \in 1..Len(m.slabs[d]) :
          /\ m.slabs[d][j].page \notin free
          /\ \A i \in 1..Len(st) : st[i].page # m.slabs[d][j].page

LEMMA ReplaceSlabs ==
    ASSUME NEW m, MemType(m), Apart(m), NEW c \in Caches, NEW st \in Seq(Slab),
           NEW free \in SUBSET Pages, NEW r, Replaced(m, c, st, free, r),
           Fits(m, c, st, free)
    PROVE  /\ MemType(r) /\ Apart(r) /\ r.pages = free /\ r.slabs[c] = st
           /\ \A d \in Caches \ {c} : r.slabs[d] = m.slabs[d]
<1>2. /\ r.pages = free /\ r.slabs[c] = st
      /\ MemType(r)
      /\ \A d \in Caches \ {c} : r.slabs[d] = m.slabs[d]
  BY DEF MemType, Replaced
<1>3. SlabsType(r) /\ SlabsType(m)
  BY <1>2, MemTypes
<1>4. ASSUME NEW d \in Caches, NEW e \in Caches,
             NEW i \in DOMAIN r.slabs[d], NEW j \in DOMAIN r.slabs[e]
      PROVE  /\ r.slabs[d][i].page \notin r.pages
             /\ r.slabs[d][i].page = r.slabs[e][j].page => d = e /\ i = j
  <2>1. i \in 1..Len(r.slabs[d]) /\ j \in 1..Len(r.slabs[e])
    BY <1>3, <1>4 DEF SlabsType
  <2>2. CASE d = c /\ e = c
    BY <1>2, <2>1, <2>2 DEF Fits
  <2>3. CASE d = c /\ e # c
    BY <1>2, <2>1, <2>3 DEF Fits
  <2>4. CASE d # c /\ e = c
    BY <1>2, <2>1, <2>4 DEF Fits
  <2>5. CASE d # c /\ e # c
    <3>1. r.slabs[d] = m.slabs[d] /\ r.slabs[e] = m.slabs[e]
      BY <1>2, <2>5
    <3>2. r.slabs[d][i].page \notin r.pages
      BY <1>2, <2>1, <2>5, <3>1 DEF Fits
    <3>3. r.slabs[d][i].page = r.slabs[e][j].page => d = e /\ i = j
      BY <3>1 DEF Apart
    <3> QED
      BY <3>2, <3>3
  <2> QED
    BY <2>2, <2>3, <2>4, <2>5
<1>5. Apart(r)
  BY <1>4 DEF Apart
<1> QED
  BY <1>2, <1>5

(* r is m with the slabs st in cache c and the pages free.                 *)
Changed(m, c, st, free, r) ==
    /\ MemType(r) /\ Apart(r)
    /\ r.pages = free /\ r.slabs[c] = st /\ st # << >>
    /\ \A d \in Caches \ {c} : r.slabs[d] = m.slabs[d]

LEMMA AddSlabMem ==
    ASSUME NEW m, MemType(m), Apart(m), NEW c \in Caches, NEW p \in Pages, NoSlabHas(m, p)
    PROVE  Changed(m, c, <<[page |-> p, list |-> FreshList(c, p)]>> \o m.slabs[c],
                   m.pages \ {p}, AddSlab(m, c, p))
<1> DEFINE x == [page |-> p, list |-> FreshList(c, p)]
           st == <<x>> \o m.slabs[c]
           r == AddSlab(m, c, p)
<1>0. x \in Slab /\ x.page = p /\ SlabsType(m) /\ m.slabs[c] \in Seq(Slab) /\ Len(m.slabs[c]) \in Nat
  BY FreshSlab, MemTypes DEF SlabsType
<1> HIDE DEF x
<1>1. /\ st \in Seq(Slab) /\ st # << >> /\ Len(st) = Len(m.slabs[c]) + 1
      /\ st[1] = x /\ \A i \in 1..Len(m.slabs[c]) : st[i + 1] = m.slabs[c][i]
  BY <1>0, PushSlab
<1> HIDE DEF st
<1>2. ASSUME NEW i \in 1..Len(st)
      PROVE  \/ i = 1 /\ st[i].page = p
             \/ i - 1 \in 1..Len(m.slabs[c]) /\ st[i] = m.slabs[c][i - 1]
  <2>1. CASE i = 1
    BY <1>0, <1>1, <2>1
  <2>2. CASE i # 1
    <3>1. i - 1 \in 1..Len(m.slabs[c]) /\ (i - 1) + 1 = i
      BY <1>0, <1>1, <2>2
    <3> QED
      BY <1>1, <3>1
  <2> QED
    BY <2>1, <2>2
<1>3. \A d \in Caches : \A j \in 1..Len(m.slabs[d]) :
          m.slabs[d][j].page \notin m.pages /\ m.slabs[d][j].page # p
  BY <1>0 DEF Apart, SlabsType, NoSlabHas
<1>4. \A i, j \in 1..Len(st) : st[i].page = st[j].page => i = j
  <2> SUFFICES ASSUME NEW i \in 1..Len(st), NEW j \in 1..Len(st), st[i].page = st[j].page
               PROVE  i = j
    OBVIOUS
  <2>1. CASE i = 1 /\ st[i].page = p
    BY <1>2, <1>3, <2>1, Zenon
  <2>2. CASE j = 1 /\ st[j].page = p
    BY <1>2, <1>3, <2>2, Zenon
  <2>3. CASE /\ i - 1 \in 1..Len(m.slabs[c]) /\ st[i] = m.slabs[c][i - 1]
             /\ j - 1 \in 1..Len(m.slabs[c]) /\ st[j] = m.slabs[c][j - 1]
    <3>1. PICK a \in 1..Len(m.slabs[c]) : a = i - 1 /\ st[i] = m.slabs[c][a]
      BY <2>3, Zenon
    <3>2. PICK b \in 1..Len(m.slabs[c]) : b = j - 1 /\ st[j] = m.slabs[c][b]
      BY <2>3, Zenon
    <3>3. a = b
      <4>1. a \in DOMAIN m.slabs[c] /\ b \in DOMAIN m.slabs[c]
        BY <1>0, Zenon DEF SlabsType
      <4>2. m.slabs[c][a].page = m.slabs[c][b].page
        BY <3>1, <3>2, Zenon
      <4>3. Apart(m) /\ c \in Caches
        BY Zenon
      <4> QED
        BY ONLY <4>1, <4>2, <4>3 DEF Apart
    <3> QED
      BY <1>0, <1>1, <3>1, <3>2, <3>3
  <2> QED
    BY <1>2, <2>1, <2>2, <2>3
<1>5. \A i \in 1..Len(st) : st[i].page \notin m.pages \ {p}
  BY <1>2, <1>3, Zenon
<1>6. \A d \in Caches \ {c} : \A j \in 1..Len(m.slabs[d]) :
          /\ m.slabs[d][j].page \notin m.pages \ {p}
          /\ \A i \in 1..Len(st) : st[i].page # m.slabs[d][j].page
  <2> SUFFICES ASSUME NEW d \in Caches \ {c}, NEW j \in 1..Len(m.slabs[d]), NEW i \in 1..Len(st)
               PROVE  st[i].page # m.slabs[d][j].page
    BY <1>3
  <2>1. CASE i = 1 /\ st[i].page = p
    BY <1>3, <2>1
  <2>2. CASE i - 1 \in 1..Len(m.slabs[c]) /\ st[i] = m.slabs[c][i - 1]
    BY <1>0, <2>2 DEF Apart, SlabsType
  <2> QED
    BY <1>2, <2>1, <2>2
<1>7. m.pages \ {p} \in SUBSET Pages
  BY DEF MemType
<1>r. Replaced(m, c, st, m.pages \ {p}, r)
  <2>1. r = [m EXCEPT !.pages = m.pages \ {p}, !.slabs[c] = st]
    BY DEF AddSlab, st, x
  <2>2. Replaced(m, c, st, m.pages \ {p}, [m EXCEPT !.pages = m.pages \ {p}, !.slabs[c] = st])
    BY <1>1, <1>7, MemExcept, Zenon
  <2> QED
    BY ONLY <2>1, <2>2, Zenon
<1> HIDE DEF r
<1>8. /\ MemType(r) /\ Apart(r) /\ r.pages = m.pages \ {p} /\ r.slabs[c] = st
      /\ \A d \in Caches \ {c} : r.slabs[d] = m.slabs[d]
  <2>1. Fits(m, c, st, m.pages \ {p})
    BY <1>4, <1>5, <1>6 DEF Fits
  <2> QED
    BY ONLY MemType(m), Apart(m), c \in Caches, <1>1, <1>7, <1>r, <2>1, ReplaceSlabs
<1>9. Changed(m, c, st, m.pages \ {p}, r)
  BY <1>1, <1>8 DEF Changed
<1> QED
  BY <1>9 DEF r, st, x

LEMMA SetListMem ==
    ASSUME NEW m, MemType(m), Apart(m), NEW c \in Caches, m.slabs[c] # << >>,
           NEW list \in Seq(Pages \X Nat)
    PROVE  Changed(m, c, WithList(m.slabs[c], list), m.pages, [m EXCEPT !.slabs[c][1].list = list])
<1> DEFINE old == m.slabs[c]
           st == WithList(old, list)
           r == [m EXCEPT !.slabs[c][1].list = list]
<1>0. SlabsType(m) /\ old \in Seq(Slab) /\ m.pages \in SUBSET Pages
  BY MemTypes DEF SlabsType, MemType
<1>1. /\ st \in Seq(Slab) /\ Len(st) = Len(old) /\ st # << >> /\ old[1] \in Slab
      /\ \A i \in 1..Len(old) : st[i].page = old[i].page
  <2>1. FirstListSet(old, list, st)
    BY <1>0, WithListIs, Zenon
  <2> HIDE DEF st
  <2> QED
    BY <2>1, Zenon DEF FirstListSet
<1>2. r = [m EXCEPT !.slabs[c] = st]
  BY DEF WithList
<1>3. Replaced(m, c, st, m.pages, r)
  <2> HIDE DEF r, st
  <2>1. Replaced(m, c, st, m.pages, [m EXCEPT !.slabs[c] = st])
    BY <1>0, <1>1, MemExcept, Zenon
  <2> QED
    BY ONLY <1>2, <2>1, Zenon
<1> HIDE DEF r, st
<1>4. Fits(m, c, st, m.pages)
  <2>1. \A i \in 1..Len(st) : i \in DOMAIN m.slabs[c] /\ st[i].page = m.slabs[c][i].page
    BY <1>0, <1>1 DEF SlabsType
  <2>2. \A d \in Caches : \A j \in 1..Len(m.slabs[d]) : j \in DOMAIN m.slabs[d]
    BY <1>0 DEF SlabsType
  <2>3. \A i, j \in 1..Len(st) : st[i].page = st[j].page => i = j
    BY <2>1 DEF Apart
  <2>4. \A i \in 1..Len(st) : st[i].page \notin m.pages
    BY <2>1 DEF Apart
  <2>5. \A d \in Caches \ {c} : \A j \in 1..Len(m.slabs[d]) :
            /\ m.slabs[d][j].page \notin m.pages
            /\ \A i \in 1..Len(st) : st[i].page # m.slabs[d][j].page
    BY <2>1, <2>2 DEF Apart
  <2> QED
    BY <2>3, <2>4, <2>5 DEF Fits
<1>5. /\ MemType(r) /\ Apart(r) /\ r.pages = m.pages /\ r.slabs[c] = st
      /\ \A d \in Caches \ {c} : r.slabs[d] = m.slabs[d]
  BY ONLY MemType(m), Apart(m), c \in Caches, <1>0, <1>1, <1>3, <1>4, ReplaceSlabs
<1>6. Changed(m, c, st, m.pages, r)
  BY <1>1, <1>5 DEF Changed
<1> QED
  BY <1>6 DEF r, st, old

LEMMA TakeFirstMem ==
    ASSUME NEW m, MemType(m), Apart(m), NEW c \in Caches, m.slabs[c] # << >>, HasFree(m, c)
    PROVE  /\ m.slabs[c][1].list # << >>
           /\ FirstFree(m, c) = Head(m.slabs[c][1].list)
           /\ Changed(m, c, WithList(m.slabs[c], Tail(m.slabs[c][1].list)), m.pages,
                      TakeFirst(m, c))
<1> DEFINE list == m.slabs[c][1].list
<1>1. m.slabs[c] \in Seq(Slab)
  BY MemTypes DEF SlabsType
<1>2. m.slabs[c][1] \in Slab /\ Head(m.slabs[c]) = m.slabs[c][1]
  BY <1>1, EmptySeq, ElementOfSeq
<1>3. list # << >> /\ Tail(list) \in Seq(Pages \X Nat)
  BY <1>2, HeadTailProperties DEF HasFree, Slab
<1>4. TakeFirst(m, c) = [m EXCEPT !.slabs[c][1].list = Tail(list)]
  BY DEF TakeFirst
<1> HIDE DEF list
<1>5. Changed(m, c, WithList(m.slabs[c], Tail(list)), m.pages,
              [m EXCEPT !.slabs[c][1].list = Tail(list)])
  BY <1>3, SetListMem, Zenon
<1>6. Changed(m, c, WithList(m.slabs[c], Tail(list)), m.pages, TakeFirst(m, c))
  BY ONLY <1>4, <1>5, Zenon
<1>7. FirstFree(m, c) = Head(list)
  BY <1>2 DEF FirstFree, list
<1> QED
  BY <1>3, <1>6, <1>7 DEF list

LEMMA PopMem ==
    ASSUME NEW m, MemType(m), Apart(m), NEW c \in Caches, Len(m.slabs[c]) > 1
    PROVE  LET free == m.pages \union {m.slabs[c][1].page}
           IN  Changed(m, c, Tail(m.slabs[c]), free,
                       [m EXCEPT !.pages = free, !.slabs[c] = Tail(m.slabs[c])])
<1> DEFINE old == m.slabs[c]
           st == Tail(old)
           free == m.pages \union {old[1].page}
           r == [m EXCEPT !.pages = free, !.slabs[c] = st]
<1>0. SlabsType(m) /\ old \in Seq(Slab) /\ Len(old) \in Nat /\ m.pages \in SUBSET Pages
  BY MemTypes DEF SlabsType, MemType
<1>1. old # << >> /\ 1 \in 1..Len(old)
  BY <1>0, EmptySeq
<1>2. /\ st \in Seq(Slab) /\ Len(st) = Len(old) - 1
      /\ \A i \in 1..Len(st) : st[i] = old[i + 1]
  BY <1>0, <1>1, HeadTailProperties
<1>3. st # << >>
  <2>1. Len(<< >>) = 0
    BY EmptySeq
  <2>2. Len(st) # 0
    <3>1. Len(old) > 1
      OBVIOUS
    <3> HIDE DEF st, old
    <3> QED
      BY <1>0, <1>2, <3>1
  <2> QED
    BY <2>1, <2>2, Zenon
<1>4. free \in SUBSET Pages
  <2>1. old[1] \in Slab
    BY <1>0, <1>1, ElementOfSeq
  <2> QED
    BY <1>0, <2>1 DEF Slab
<1>5. Replaced(m, c, st, free, r)
  <2> HIDE DEF st, free
  <2> QED
    BY <1>2, <1>4, MemExcept, Zenon
<1> HIDE DEF st, r
<1>6. Fits(m, c, st, free)
  <2>1. \A i \in 1..Len(st) : /\ i + 1 \in DOMAIN m.slabs[c] /\ i + 1 # 1
                              /\ st[i].page = m.slabs[c][i + 1].page
    BY <1>0, <1>2 DEF SlabsType
  <2>2. \A d \in Caches : \A j \in 1..Len(m.slabs[d]) : j \in DOMAIN m.slabs[d]
    BY <1>0 DEF SlabsType
  <2>3. \A i, j \in 1..Len(st) : st[i].page = st[j].page => i = j
    <3> SUFFICES ASSUME NEW i \in 1..Len(st), NEW j \in 1..Len(st), st[i].page = st[j].page
                 PROVE  i = j
      OBVIOUS
    <3>1. i + 1 = j + 1
      BY <2>1 DEF Apart
    <3> QED
      BY <1>0, <1>2, <3>1
  <2>4. \A i \in 1..Len(st) : st[i].page \notin free
    BY <1>1, <2>1, <2>2 DEF Apart
  <2>5. \A d \in Caches \ {c} : \A j \in 1..Len(m.slabs[d]) :
            /\ m.slabs[d][j].page \notin free
            /\ \A i \in 1..Len(st) : st[i].page # m.slabs[d][j].page
    BY <1>1, <2>1, <2>2 DEF Apart
  <2> QED
    BY <2>3, <2>4, <2>5, Zenon DEF Fits
<1> HIDE DEF free
<1>7. /\ MemType(r) /\ Apart(r) /\ r.pages = free /\ r.slabs[c] = st
      /\ \A d \in Caches \ {c} : r.slabs[d] = m.slabs[d]
  BY ONLY MemType(m), Apart(m), c \in Caches, <1>2, <1>4, <1>5, <1>6, ReplaceSlabs
<1>8. Changed(m, c, st, free, r)
  BY <1>3, <1>7 DEF Changed
<1> QED
  BY <1>8 DEF r, st, free, old
-----------------------------------------------------------------------------
(* A cache made ready for an allocation has gained at most one slab, on a  *)
(* page that was free.                                                     *)
Ready(m, c, r) ==
    /\ MemInv(r) /\ HasFree(r, c) /\ r.pages \subseteq m.pages
    /\ \/ r.slabs[c] = m.slabs[c]
       \/ \E p \in m.pages :
             r.slabs[c] = <<[page |-> p, list |-> FreshList(c, p)]>> \o m.slabs[c]

LEMMA FreePage ==
    ASSUME NEW m, MemType(m), m.pages # {}
    PROVE  LowestPage(m) \in m.pages
<1>1. m.pages \subseteq Nat
  BY KmemAssumption DEF MemType, Pages
<1>2. \E p \in m.pages : \A q \in m.pages : p <= q
  <2>1. PICK p \in m.pages : \A q \in m.pages : ~(q < p)
    BY <1>1, LeastNatural
  <2>2. \A q \in m.pages : p <= q
    BY <1>1, <2>1
  <2> QED
    BY <2>2
<1> QED
  BY <1>2 DEF LowestPage

(* A slab pushed gives its cache a free object.                            *)
LEMMA PushedHasFree ==
    ASSUME NEW c \in Caches, NEW p \in Pages, NEW st \in Seq(Slab), NEW r,
           r.slabs[c] = <<[page |-> p, list |-> FreshList(c, p)]>> \o st
    PROVE  HasFree(r, c)
<1> DEFINE x == [page |-> p, list |-> FreshList(c, p)]
<1>1. x \in Slab /\ Len(x.list) = Capacity[c] /\ Capacity[c] \in Nat \ {0}
  BY FreshSlab
<1>2. x.list # << >>
  <2>1. Len(<< >>) = 0
    BY EmptySeq
  <2> QED
    BY <1>1, <2>1
<1> HIDE DEF x
<1>3. (<<x>> \o st)[1] = x /\ <<x>> \o st # << >> /\ <<x>> \o st \in Seq(Slab)
  BY <1>1, PushSlab
<1>4. Head(<<x>> \o st) = x
  BY <1>3
<1>5. r.slabs[c] = <<x>> \o st
  BY DEF x
<1> QED
  BY <1>2, <1>4, <1>5 DEF HasFree

LEMMA RefillInPageReady ==
    ASSUME NEW m, MemInv(m), NEW c \in Caches, NEW r \in RefillInPage(m, c)
    PROVE  Ready(m, c, r) /\ \A d \in Caches \ {c} : r.slabs[d] = m.slabs[d]
<1>1. CASE HasFree(m, c)
  <2>1. r = m
    BY <1>1 DEF RefillInPage
  <2> QED
    BY <1>1, <2>1 DEF Ready
<1>2. CASE ~HasFree(m, c)
  <2> DEFINE p == LowestPage(m)
             x == [page |-> p, list |-> FreshList(c, p)]
  <2>1. m.pages # {} /\ r = AddSlab(m, c, p)
    BY <1>2 DEF RefillInPage
  <2>2. p \in m.pages /\ p \in Pages /\ MemType(m) /\ Apart(m)
    BY <2>1, FreePage DEF MemInv, MemType
  <2> HIDE DEF p
  <2>3. NoSlabHas(m, p)
    BY <2>2, MemTypes DEF NoSlabHas, Apart, SlabsType
  <2>4. Changed(m, c, <<x>> \o m.slabs[c], m.pages \ {p}, r)
    BY <2>1, <2>2, <2>3, AddSlabMem
  <2>6. HasFree(r, c)
    <3>1. m.slabs[c] \in Seq(Slab)
      BY <2>2, MemTypes DEF SlabsType
    <3> QED
      BY <2>2, <2>4, <3>1, PushedHasFree, Zenon DEF Changed
  <2>7. MemInv(r)
    <3>1. \A d \in Caches : r.slabs[d] # << >>
      BY <2>4 DEF Changed, MemInv
    <3> QED
      BY <2>4, <3>1 DEF Changed, MemInv
  <2>8. Ready(m, c, r)
    BY <2>2, <2>4, <2>6, <2>7 DEF Ready, Changed
  <2> QED
    BY <2>4, <2>8 DEF Changed
<1> QED
  BY <1>1, <1>2

(* kmem_slab_create for "big" holds its page while the cache of            *)
(* descriptors takes another one.                                          *)
LEMMA RefillBigReady ==
    ASSUME NEW m, MemInv(m), NEW r \in RefillBig(m)
    PROVE  Ready(m, "big", r) /\ r.slabs["small"] = m.slabs["small"]
<1>0. "big" \in Caches /\ "slab" \in Caches /\ "small" \in Caches
      /\ MemType(m) /\ Apart(m) /\ SlabsType(m)
  BY MemTypes DEF Caches, MemInv
<1>1. CASE HasFree(m, "big")
  <2>1. r = m
    BY <1>1 DEF RefillBig
  <2> QED
    BY <1>1, <2>1 DEF Ready
<1>2. CASE ~HasFree(m, "big")
  <2> DEFINE p == LowestPage(m)
             taken == [m EXCEPT !.pages = @ \ {p}]
  <2>1. PICK r1 \in RefillInPage(taken, "slab") : r = AddSlab(TakeFirst(r1, "slab"), "big", p)
    BY <1>2 DEF RefillBig
  <2>2. p \in m.pages /\ p \in Pages
    <3>1. m.pages # {}
      BY <1>2 DEF RefillBig
    <3> QED
      BY <1>0, <3>1, FreePage DEF MemType
  <2> HIDE DEF p
  <2>3. MemType(taken) /\ taken.pages = m.pages \ {p} /\ taken.slabs = m.slabs
    BY <1>0, Zenon DEF MemType
  <2> HIDE DEF taken
  <2>4. MemInv(taken)
    BY <2>3 DEF MemInv, Apart
  <2>5. Ready(taken, "slab", r1) /\ \A d \in Caches \ {"slab"} : r1.slabs[d] = m.slabs[d]
    BY <1>0, <2>3, <2>4, RefillInPageReady
  <2>6. NoSlabHas(m, p)
    BY <1>0, <2>2 DEF NoSlabHas, Apart, SlabsType
  <2>7. NoSlabHas(r1, p)
    <3> SUFFICES ASSUME NEW d \in Caches, NEW i \in 1..Len(r1.slabs[d])
                 PROVE  r1.slabs[d][i].page # p
      BY DEF NoSlabHas
    <3>1. CASE r1.slabs[d] = m.slabs[d]
      BY <2>6, <3>1 DEF NoSlabHas
    <3>2. CASE d = "slab" /\ r1.slabs[d] # m.slabs[d]
      <4>1. PICK q \in taken.pages : r1.slabs["slab"] =
                <<[page |-> q, list |-> FreshList("slab", q)]>> \o m.slabs["slab"]
        BY <2>3, <2>5, <3>2 DEF Ready
      <4> DEFINE x == [page |-> q, list |-> FreshList("slab", q)]
                 old == m.slabs["slab"]
      <4>2. x \in Slab /\ x.page = q /\ q # p /\ old \in Seq(Slab) /\ Len(old) \in Nat
        BY <1>0, <2>3, FreshSlab DEF MemType, SlabsType
      <4>3. r1.slabs[d] = <<x>> \o old
        BY <3>2, <4>1
      <4> HIDE DEF x, old
      <4>4. /\ Len(r1.slabs[d]) = Len(old) + 1 /\ r1.slabs[d][1] = x
            /\ \A j \in 1..Len(old) : r1.slabs[d][j + 1] = old[j]
        BY <4>2, <4>3, PushSlab
      <4>5. CASE i = 1
        BY <4>2, <4>4, <4>5
      <4>6. CASE i # 1
        <5>1. i - 1 \in 1..Len(old) /\ (i - 1) + 1 = i
          BY <4>2, <4>4, <4>6
        <5>2. r1.slabs[d][i] = old[i - 1]
          BY <4>4, <5>1
        <5> QED
          BY <1>0, <2>6, <5>1, <5>2 DEF NoSlabHas, old
      <4> QED
        BY <4>5, <4>6
    <3> QED
      BY <2>5, <3>1, <3>2
  <2> DEFINE r2 == TakeFirst(r1, "slab")
             st2 == WithList(r1.slabs["slab"], Tail(r1.slabs["slab"][1].list))
  <2>8. MemInv(r1) /\ MemType(r1) /\ Apart(r1) /\ r1.slabs["slab"] # << >>
        /\ HasFree(r1, "slab") /\ r1.pages \subseteq m.pages \ {p}
    BY <1>0, <2>3, <2>5 DEF Ready, MemInv
  <2>9. Changed(r1, "slab", st2, r1.pages, r2) /\ r1.slabs["slab"][1].list # << >>
    BY <1>0, <2>8, TakeFirstMem
  <2>10. NoSlabHas(r2, p)
    <3>1. r1.slabs["slab"] \in Seq(Slab) /\ r1.slabs["slab"][1] \in Slab
      BY <1>0, <2>8, MemTypes, EmptySeq, ElementOfSeq DEF SlabsType
    <3>2. Tail(r1.slabs["slab"][1].list) \in Seq(Pages \X Nat)
      BY <2>9, <3>1, HeadTailProperties DEF Slab
    <3>3. /\ Len(st2) = Len(r1.slabs["slab"])
          /\ \A i \in 1..Len(r1.slabs["slab"]) : st2[i].page = r1.slabs["slab"][i].page
      <4>1. FirstListSet(r1.slabs["slab"], Tail(r1.slabs["slab"][1].list), st2)
        BY <2>8, <3>1, <3>2, WithListIs, Zenon
      <4> HIDE DEF st2
      <4> QED
        BY <4>1, Zenon DEF FirstListSet
    <3> HIDE DEF st2, r2
    <3>4. \A i \in 1..Len(r2.slabs["slab"]) : r2.slabs["slab"][i].page # p
      BY <1>0, <2>7, <2>9, <3>3 DEF Changed, NoSlabHas
    <3>5. \A d \in Caches \ {"slab"} : r2.slabs[d] = r1.slabs[d]
      BY <2>9 DEF Changed
    <3> QED
      BY <2>7, <3>4, <3>5 DEF NoSlabHas
  <2> HIDE DEF st2, r2
  <2>11. Changed(r2, "big", <<[page |-> p, list |-> FreshList("big", p)]>> \o r2.slabs["big"],
                 r2.pages \ {p}, r)
    <3>1. MemType(r2) /\ Apart(r2) /\ r = AddSlab(r2, "big", p)
      BY <2>1, <2>9 DEF Changed, r2
    <3> QED
      BY <1>0, <2>2, <2>10, <3>1, AddSlabMem
  <2>12. /\ r2.slabs["big"] = m.slabs["big"] /\ r2.slabs["small"] = m.slabs["small"]
         /\ r2.pages = r1.pages /\ \A d \in Caches : r2.slabs[d] # << >>
    <3>1. "big" \in Caches \ {"slab"} /\ "small" \in Caches \ {"slab"}
      BY DEF Caches
    <3>2. r2.slabs["slab"] # << >>
      BY <2>9 DEF Changed
    <3> QED
      BY <2>5, <2>8, <2>9, <3>1, <3>2 DEF Changed, MemInv
  <2>13. r.slabs["small"] = m.slabs["small"] /\ r.slabs["slab"] = r2.slabs["slab"]
    <3>1. "slab" \in Caches \ {"big"} /\ "small" \in Caches \ {"big"}
      BY DEF Caches
    <3> QED
      BY <2>11, <2>12, <3>1 DEF Changed
  <2>14. r.slabs["big"] = <<[page |-> p, list |-> FreshList("big", p)]>> \o m.slabs["big"]
    BY <2>11, <2>12 DEF Changed
  <2>15. HasFree(r, "big")
    BY <1>0, <2>2, <2>14, PushedHasFree, Zenon DEF SlabsType
  <2>16. MemInv(r) /\ r.pages \subseteq m.pages
    <3>1. \A d \in Caches : r.slabs[d] # << >>
      BY <2>11, <2>12, <2>13 DEF Changed, Caches
    <3>2. r.pages = r2.pages \ {p} /\ MemType(r) /\ Apart(r)
      BY <2>11 DEF Changed
    <3> QED
      BY <2>8, <2>12, <3>1, <3>2 DEF MemInv
  <2> QED
    BY <2>2, <2>13, <2>14, <2>15, <2>16 DEF Ready
<1> QED
  BY <1>1, <1>2

LEMMA RefillReady ==
    ASSUME NEW m, MemInv(m), NEW c \in ClientCaches, NEW r \in Refill(m, c)
    PROVE  Ready(m, c, r) /\ \A d \in ClientCaches \ {c} : r.slabs[d] = m.slabs[d]
<1>1. CASE c = "big"
  <2>1. r \in RefillBig(m)
    BY <1>1 DEF Refill
  <2> QED
    BY <1>1, <2>1, RefillBigReady DEF ClientCaches
<1>2. CASE c # "big"
  <2>1. r \in RefillInPage(m, c) /\ c \in Caches
    BY <1>2 DEF Refill, ClientCaches, Caches
  <2> QED
    BY <2>1, RefillInPageReady DEF ClientCaches, Caches
<1> QED
  BY <1>1, <1>2
-----------------------------------------------------------------------------
(* The steps.  As long as no object is corrupt, the freed pages do not     *)
(* matter to any cache.                                                    *)
LEMMA AllCachesFine ==
    ASSUME KmemInv, ~Corrupt
    PROVE  \A c \in ClientCaches : CacheInv(c, mem.slabs[c], live[c], {}, mixed)
<1> SUFFICES ASSUME NEW c \in ClientCaches
             PROVE  CacheInv(c, mem.slabs[c], live[c], {}, mixed)
  OBVIOUS
<1>1. /\ CacheInv(c, mem.slabs[c], live[c], mem.pages, mixed) /\ mixed \in BOOLEAN
      /\ \A o \in live[c] : PageOf(o) \notin mem.pages
  BY DEF KmemInv, Corrupt
<1> QED
  BY <1>1, Uncorrupted

LEMMA AllocStep ==
    ASSUME KmemInv, NEW c \in ClientCaches, Alloc(c)
    PROVE  KmemInv'
<1>1. PICK m \in Refill(mem, c) :
          /\ live' = [live EXCEPT ![c] = @ \union {FirstFree(m, c)}]
          /\ mem' = TakeFirst(m, c)
  BY Zenon DEF Alloc
<1>2. mixed' = mixed /\ mixed \in BOOLEAN /\ MemInv(mem) /\ c \in Caches
      /\ live \in [ClientCaches -> SUBSET (Pages \X Nat)] /\ ~Corrupt
  BY DEF Alloc, KmemInv, ClientCaches, Caches
<1>3. Ready(mem, c, m) /\ \A d \in ClientCaches \ {c} : m.slabs[d] = mem.slabs[d]
  BY <1>2, RefillReady
<1>4. MemInv(m) /\ MemType(m) /\ Apart(m) /\ m.slabs[c] # << >> /\ HasFree(m, c)
  BY <1>2, <1>3 DEF Ready, MemInv
<1> DEFINE o == FirstFree(m, c)
           st == WithList(m.slabs[c], Tail(m.slabs[c][1].list))
<1>5. /\ m.slabs[c][1].list # << >> /\ o = Head(m.slabs[c][1].list)
      /\ Changed(m, c, st, m.pages, mem')
  BY <1>1, <1>2, <1>4, TakeFirstMem
<1>6. \A d \in ClientCaches : CacheInv(d, mem.slabs[d], live[d], {}, mixed)
  BY <1>2, AllCachesFine
<1>7. CacheInv(c, m.slabs[c], live[c], {}, mixed)
  <2>1. CASE m.slabs[c] = mem.slabs[c]
    BY <1>6, <2>1
  <2>2. CASE m.slabs[c] # mem.slabs[c]
    <3>1. PICK p \in mem.pages :
              m.slabs[c] = <<[page |-> p, list |-> FreshList(c, p)]>> \o mem.slabs[c]
      BY <1>3, <2>2 DEF Ready
    <3>2. p \in Pages /\ \A i \in 1..Len(mem.slabs[c]) : mem.slabs[c][i].page # p
      BY <1>2, MemTypes DEF MemInv, MemType, Apart, SlabsType
    <3> QED
      BY <1>2, <1>6, <3>1, <3>2, PushStep
  <2> QED
    BY <2>1, <2>2
<1>8. CacheInv(c, st, live[c] \union {o}, {}, mixed)
  BY <1>2, <1>4, <1>5, <1>7, TakeStep, Zenon
<1> HIDE DEF st
<1>9. live' \in [ClientCaches -> SUBSET (Pages \X Nat)]
  <2>1. live[c] \union {o} \subseteq Objects(c)
    BY <1>8 DEF CacheInv
  <2>2. Objects(c) \subseteq Pages \X Nat
    BY <1>2, KmemAssumption DEF Objects
  <2> QED
    BY <1>1, <1>2, <2>1, <2>2
<1>10. MemInv(mem')
  <2>1. \A d \in Caches : mem'.slabs[d] # << >>
    BY <1>4, <1>5 DEF Changed, MemInv
  <2> QED
    BY <1>5, <2>1 DEF Changed, MemInv
<1>11. ASSUME NEW d \in ClientCaches
       PROVE  CacheInv(d, mem'.slabs[d], live'[d], mem'.pages, mixed')
  <2>1. CASE d = c
    <3>1. mem'.slabs[d] = st /\ live'[d] = live[c] \union {o}
      BY <1>1, <1>2, <1>5, <2>1 DEF Changed
    <3>2. CacheInv(d, mem'.slabs[d], live'[d], {}, mixed')
      BY <1>2, <1>8, <2>1, <3>1
    <3> QED
      BY <1>2, <3>2, Weaken
  <2>2. CASE d # c
    <3>0. d \in Caches \ {c}
      BY <2>2 DEF Caches, ClientCaches
    <3>1. mem'.slabs[d] = mem.slabs[d] /\ live'[d] = live[d]
      BY <1>1, <1>2, <1>3, <1>5, <2>2, <3>0 DEF Changed
    <3>2. CacheInv(d, mem'.slabs[d], live'[d], {}, mixed')
      BY <1>2, <1>6, <3>1
    <3> QED
      BY <1>2, <3>2, Weaken
  <2> QED
    BY <2>1, <2>2
<1> QED
  BY <1>2, <1>9, <1>10, <1>11 DEF KmemInv

LEMMA FreeStep ==
    ASSUME KmemInv, NEW c \in ClientCaches, NEW o \in live[c], Free(c, o)
    PROVE  KmemInv'
<1> DEFINE old == mem.slabs[c]
           list == <<o>> \o old[1].list
           st == WithList(old, list)
           put == [mem EXCEPT !.slabs[c][1].list = <<o>> \o @]
<1>1. /\ mixed \in BOOLEAN /\ MemInv(mem) /\ MemType(mem) /\ Apart(mem) /\ c \in Caches
      /\ live \in [ClientCaches -> SUBSET (Pages \X Nat)] /\ ~Corrupt /\ old # << >>
      /\ live' = [live EXCEPT ![c] = @ \ {o}]
  BY DEF Free, KmemInv, ClientCaches, Caches, MemInv
<1>2. \A d \in ClientCaches : CacheInv(d, mem.slabs[d], live[d], {}, mixed)
  BY <1>1, AllCachesFine
<1>3. old \in Seq(Slab) /\ old[1] \in Slab /\ Head(old) = old[1]
  BY <1>1, MemTypes, EmptySeq, ElementOfSeq DEF SlabsType
<1>4. list \in Seq(Pages \X Nat)
  <2>1. <<o>> \in Seq(Pages \X Nat)
    BY <1>1
  <2>2. old[1].list \in Seq(Pages \X Nat)
    BY <1>3 DEF Slab
  <2> QED
    BY <2>1, <2>2, ConcatProperties
<1>5. Changed(mem, c, st, mem.pages, put)
  <2>1. put = [mem EXCEPT !.slabs[c][1].list = list]
    OBVIOUS
  <2> HIDE DEF put, list
  <2>2. Changed(mem, c, st, mem.pages, [mem EXCEPT !.slabs[c][1].list = list])
    BY <1>1, <1>4, SetListMem, Zenon
  <2> QED
    BY ONLY <2>1, <2>2, Zenon
<1>6. mixed' \in BOOLEAN /\ (mixed' <=> (mixed \/ PageOf(o) # old[1].page))
  BY <1>1, <1>3, Zenon DEF Free
<1>7. CacheInv(c, st, live[c] \ {o}, {}, mixed')
  <2>1. mixed' \in BOOLEAN /\ (mixed => mixed') /\ (PageOf(o) # old[1].page => mixed')
    BY <1>6
  <2>2. CacheInv(c, old, live[c], {}, mixed')
    BY <1>1, <1>2, <2>1, Weaken
  <2> HIDE DEF old
  <2> QED
    BY <1>1, <2>1, <2>2, PutStep, Zenon
<1>8. mem' = IF Len(Head(put.slabs[c]).list) = Capacity[c] /\ Len(put.slabs[c]) > 1
             THEN [put EXCEPT !.pages = put.pages \union {Head(put.slabs[c]).page},
                              !.slabs[c] = Tail(put.slabs[c])]
             ELSE put
  BY Zenon DEF Free, PutFirst
<1> HIDE DEF put, st, list
<1>9. put.slabs[c] = st /\ put.pages = mem.pages /\ st # << >> /\ MemType(put) /\ Apart(put)
      /\ st \in Seq(Slab) /\ Head(st) = st[1]
      /\ \A d \in Caches \ {c} : put.slabs[d] = mem.slabs[d]
  BY <1>5, <1>7 DEF Changed, CacheInv
<1>10. \/ /\ Changed(mem, c, st, mem.pages, mem')
          /\ CacheInv(c, st, live[c] \ {o}, {}, mixed')
       \/ /\ Changed(mem, c, Tail(st), mem.pages \union {st[1].page}, mem')
          /\ CacheInv(c, Tail(st), live[c] \ {o}, {st[1].page}, mixed')
  <2>1. CASE Len(st[1].list) = Capacity[c] /\ Len(st) > 1
    <3> DEFINE free == put.pages \union {put.slabs[c][1].page}
    <3>1. mem' = [put EXCEPT !.pages = free, !.slabs[c] = Tail(put.slabs[c])]
      BY <1>8, <1>9, <2>1, Zenon
    <3>2. Changed(put, c, Tail(put.slabs[c]), free,
                  [put EXCEPT !.pages = free, !.slabs[c] = Tail(put.slabs[c])])
      BY <1>1, <1>9, <2>1, PopMem, Zenon
    <3>3. Changed(put, c, Tail(put.slabs[c]), free, mem')
      BY ONLY <3>1, <3>2, Zenon
    <3>4. Changed(mem, c, Tail(st), mem.pages \union {st[1].page}, mem')
      BY <1>9, <3>3 DEF Changed
    <3>5. CacheInv(c, Tail(st), live[c] \ {o}, {st[1].page}, mixed')
      BY <1>6, <1>7, <2>1, PopStep
    <3> QED
      BY <3>4, <3>5
  <2>2. CASE ~(Len(st[1].list) = Capacity[c] /\ Len(st) > 1)
    <3>1. mem' = put
      BY <1>8, <1>9, <2>2
    <3> QED
      BY <1>5, <1>7, <3>1
  <2> QED
    BY <2>1, <2>2
<1>11. /\ MemInv(mem') /\ CacheInv(c, mem'.slabs[c], live'[c], mem'.pages, mixed')
       /\ \A d \in Caches \ {c} : mem'.slabs[d] = mem.slabs[d]
  <2>1. live'[c] = live[c] \ {o}
    BY <1>1
  <2>2. ASSUME NEW s, NEW free, NEW freed, Changed(mem, c, s, free, mem'),
               CacheInv(c, s, live[c] \ {o}, freed, mixed'), freed \subseteq free
        PROVE  /\ MemInv(mem') /\ CacheInv(c, mem'.slabs[c], live'[c], mem'.pages, mixed')
               /\ \A d \in Caches \ {c} : mem'.slabs[d] = mem.slabs[d]
    <3>1. \A d \in Caches : mem'.slabs[d] # << >>
      BY <1>1, <2>2 DEF Changed, MemInv
    <3>2. MemInv(mem')
      BY <2>2, <3>1 DEF Changed, MemInv
    <3>3. CacheInv(c, s, live[c] \ {o}, free, mixed')
      BY <1>6, <2>2, Weaken
    <3> QED
      BY <2>1, <2>2, <3>2, <3>3 DEF Changed
  <2>3. {} \subseteq mem.pages /\ {st[1].page} \subseteq mem.pages \union {st[1].page}
    OBVIOUS
  <2>4. CASE /\ Changed(mem, c, st, mem.pages, mem')
             /\ CacheInv(c, st, live[c] \ {o}, {}, mixed')
    BY <2>2, <2>3, <2>4
  <2>5. CASE /\ Changed(mem, c, Tail(st), mem.pages \union {st[1].page}, mem')
             /\ CacheInv(c, Tail(st), live[c] \ {o}, {st[1].page}, mixed')
    BY <2>2, <2>3, <2>5
  <2> QED
    BY <1>10, <2>4, <2>5
<1>12. live' \in [ClientCaches -> SUBSET (Pages \X Nat)]
  BY <1>1
<1>13. ASSUME NEW d \in ClientCaches
       PROVE  CacheInv(d, mem'.slabs[d], live'[d], mem'.pages, mixed')
  <2>1. CASE d # c
    <3>0. d \in Caches \ {c}
      BY <2>1 DEF Caches, ClientCaches
    <3>1. mem'.slabs[d] = mem.slabs[d] /\ live'[d] = live[d]
      BY <1>1, <1>11, <2>1, <3>0
    <3>2. CacheInv(d, mem'.slabs[d], live'[d], {}, mixed)
      BY <1>2, <3>1
    <3>3. mixed => mixed'
      BY <1>6
    <3> QED
      BY <1>1, <1>6, <3>2, <3>3, Weaken
  <2> QED
    BY <1>11, <2>1
<1> QED
  BY <1>6, <1>11, <1>12, <1>13 DEF KmemInv

LEMMA FreePageNoSlab ==
    ASSUME NEW m, MemType(m), Apart(m), NEW p \in m.pages
    PROVE  NoSlabHas(m, p)
  BY MemTypes DEF NoSlabHas, Apart, SlabsType

LEMMA EmptyCache ==
    ASSUME NEW c \in ClientCaches
    PROVE  CacheInv(c, << >>, {}, {}, FALSE)
<1>1. << >> \in Seq(Slab) /\ Len(<< >>) = 0
  BY EmptySeq
<1>2. IsFiniteSet({}) /\ Cardinality({}) = 0
  BY FS_EmptySet
<1>3. Capacity[c] * 0 = 0
  BY KmemAssumption DEF ClientCaches, Caches
<1>4. \A i \in 1..0 : FALSE
  OBVIOUS
<1> QED
  BY <1>1, <1>2, <1>3, <1>4, NrFreeEmpty
  DEF CacheInv, Listed, ListedOnce, LivePlaced, OwnLists

LEMMA InitStep ==
    ASSUME Init
    PROVE  KmemInv
<1> DEFINE m0 == [pages |-> Pages, slabs |-> [c \in Caches |-> << >>]]
           m1 == AddSlab(m0, "slab", 1)
           m2 == AddSlab(m1, "small", 2)
           m3 == TakeFirst(m2, "slab")
           new(c, p) == <<[page |-> p, list |-> FreshList(c, p)]>> \o << >>
<1>0. mem = AddSlab(m3, "big", 3)
  BY DEF Init
<1>p. 1 \in Pages /\ 2 \in Pages /\ 3 \in Pages
  BY KmemAssumption DEF Pages
<1>c. "slab" \in Caches /\ "small" \in Caches /\ "big" \in Caches
  BY DEF Caches
<1>1. MemType(m0) /\ Apart(m0) /\ m0.pages = Pages /\ \A c \in Caches : m0.slabs[c] = << >>
  <2>1. << >> \in Seq(Slab) /\ DOMAIN << >> = {}
    BY EmptySeq
  <2> QED
    BY <2>1 DEF MemType, Apart
<1> HIDE DEF m0
<1>2. Changed(m0, "slab", new("slab", 1), Pages \ {1}, m1)
  <2>1. NoSlabHas(m0, 1)
    BY <1>1, <1>p, FreePageNoSlab
  <2>2. Changed(m0, "slab", <<[page |-> 1, list |-> FreshList("slab", 1)]>> \o m0.slabs["slab"],
                m0.pages \ {1}, m1)
    BY <1>1, <1>p, <1>c, <2>1, AddSlabMem, Zenon
  <2> QED
    BY <1>1, <1>c, <2>2, Zenon
<1> HIDE DEF m1
<1>3. MemType(m1) /\ Apart(m1) /\ m1.pages = Pages \ {1} /\ m1.slabs["slab"] = new("slab", 1)
      /\ m1.slabs["small"] = << >> /\ m1.slabs["big"] = << >>
  <2>1. "small" \in Caches \ {"slab"} /\ "big" \in Caches \ {"slab"}
    BY DEF Caches
  <2> QED
    BY <1>1, <1>2, <1>c, <2>1 DEF Changed
<1>4. Changed(m1, "small", new("small", 2), (Pages \ {1}) \ {2}, m2)
  <2>1. NoSlabHas(m1, 2)
    BY <1>3, <1>p, FreePageNoSlab
  <2>2. Changed(m1, "small", <<[page |-> 2, list |-> FreshList("small", 2)]>> \o m1.slabs["small"],
                m1.pages \ {2}, m2)
    BY <1>3, <1>p, <1>c, <2>1, AddSlabMem, Zenon
  <2> QED
    BY <1>3, <2>2
<1> HIDE DEF m2
<1>5. /\ MemType(m2) /\ Apart(m2) /\ m2.pages = (Pages \ {1}) \ {2}
      /\ m2.slabs["slab"] = new("slab", 1) /\ m2.slabs["small"] = new("small", 2)
      /\ m2.slabs["big"] = << >> /\ m2.slabs["small"] # << >>
  <2>1. "slab" \in Caches \ {"small"} /\ "big" \in Caches \ {"small"}
    BY DEF Caches
  <2> QED
    BY <1>3, <1>4, <2>1 DEF Changed
<1>6. m2.slabs["slab"] # << >> /\ HasFree(m2, "slab")
  <2>1. m2.slabs["slab"] # << >>
    BY <1>2, <1>5 DEF Changed
  <2>2. << >> \in Seq(Slab)
    BY EmptySeq
  <2>3. HasFree(m2, "slab")
    BY <1>5, <1>p, <1>c, <2>2, PushedHasFree, Zenon
  <2> QED
    BY <2>1, <2>3
<1>7. /\ MemType(m3) /\ Apart(m3) /\ m3.pages = (Pages \ {1}) \ {2}
      /\ m3.slabs["slab"] # << >> /\ m3.slabs["small"] = new("small", 2)
      /\ m3.slabs["big"] = << >> /\ m3.slabs["small"] # << >>
  <2>1. Changed(m2, "slab", WithList(m2.slabs["slab"], Tail(m2.slabs["slab"][1].list)), m2.pages, m3)
    BY <1>5, <1>6, <1>c, TakeFirstMem, Zenon
  <2>2. "small" \in Caches \ {"slab"} /\ "big" \in Caches \ {"slab"}
    BY DEF Caches
  <2> HIDE DEF m3, new
  <2> QED
    BY <1>5, <2>1, <2>2 DEF Changed
<1> HIDE DEF m3
<1>8. Changed(m3, "big", new("big", 3), m3.pages \ {3}, mem)
  <2>1. NoSlabHas(m3, 3)
    BY <1>7, <1>p, FreePageNoSlab
  <2>2. Changed(m3, "big", <<[page |-> 3, list |-> FreshList("big", 3)]>> \o m3.slabs["big"],
                m3.pages \ {3}, mem)
    BY <1>0, <1>7, <1>p, <1>c, <2>1, AddSlabMem, Zenon
  <2> QED
    BY <1>7, <2>2
<1>9. /\ mem.slabs["small"] = new("small", 2) /\ mem.slabs["big"] = new("big", 3)
      /\ MemInv(mem)
  <2>1. "slab" \in Caches \ {"big"} /\ "small" \in Caches \ {"big"}
    BY DEF Caches
  <2> HIDE DEF new
  <2>2. /\ mem.slabs["small"] = new("small", 2) /\ mem.slabs["big"] = new("big", 3)
        /\ mem.slabs["slab"] = m3.slabs["slab"] /\ mem.slabs["big"] # << >>
        /\ MemType(mem) /\ Apart(mem)
    BY <1>7, <1>8, <2>1 DEF Changed
  <2>3. \A c \in Caches : mem.slabs[c] # << >>
    BY <1>7, <2>2 DEF Caches
  <2> QED
    BY <2>2, <2>3 DEF MemInv
<1>10. ASSUME NEW c \in ClientCaches, NEW p \in Pages
       PROVE  CacheInv(c, new(c, p), {}, {}, FALSE)
  <2>1. CacheInv(c, << >>, {}, {}, FALSE)
    BY EmptyCache, Zenon
  <2>2. \A i \in 1..Len(<< >>) : << >>[i].page # p
    <3>1. Len(<< >>) = 0
      BY EmptySeq
    <3> QED
      BY ONLY <3>1
  <2> QED
    BY <2>1, <2>2, PushStep, Zenon
<1>11. live = [c \in ClientCaches |-> {}] /\ mixed = FALSE
  BY DEF Init
<1>12. ASSUME NEW c \in ClientCaches
       PROVE  CacheInv(c, mem.slabs[c], live[c], mem.pages, mixed)
  <2>1. PICK p \in Pages : mem.slabs[c] = new(c, p)
    <3> HIDE DEF new
    <3> QED
      BY <1>9, <1>p DEF ClientCaches
  <2>2. CacheInv(c, mem.slabs[c], live[c], {}, mixed)
    BY <1>10, <1>11, <2>1, Zenon
  <2>3. {} \subseteq mem.pages /\ mixed \in BOOLEAN
    BY <1>11, Zenon
  <2> QED
    BY <2>2, <2>3, Weaken
<1> QED
  BY <1>9, <1>11, <1>12, Zenon DEF KmemInv

LEMMA KmemInvariant == Spec => []KmemInv
<1>1. Init => KmemInv
  BY InitStep
<1>2. KmemInv /\ [Next]_vars => KmemInv'
  <2> SUFFICES ASSUME KmemInv, [Next]_vars PROVE KmemInv'
    OBVIOUS
  <2>1. ASSUME NEW c \in ClientCaches, Alloc(c) PROVE KmemInv'
    BY <2>1, AllocStep
  <2>2. ASSUME NEW c \in ClientCaches, NEW o \in live[c], Free(c, o) PROVE KmemInv'
    BY <2>2, FreeStep
  <2>3. CASE UNCHANGED vars
    BY <2>3 DEF KmemInv, vars
  <2> QED
    BY <2>1, <2>2, <2>3 DEF Next
<1> QED
  BY <1>1, <1>2, PTL DEF Spec

(* Each page of the allocator is free or the page of one slab of one       *)
(* cache, through every nesting of kmem_slab_create in itself, although    *)
(* kmem_cache_free gives objects to slabs they do not come from.           *)
THEOREM PageHasOneOwner == Spec => []OneOwnerPerPage
<1>1. KmemInv => OneOwnerPerPage
  <2> SUFFICES ASSUME KmemInv, NEW a \in SlabPages, NEW b \in SlabPages
               PROVE  /\ mem.slabs[a[1]][a[2]].page \notin mem.pages
                      /\ a # b => mem.slabs[a[1]][a[2]].page # mem.slabs[b[1]][b[2]].page
    BY DEF OneOwnerPerPage
  <2>1. /\ a[1] \in Caches /\ a[2] \in DOMAIN mem.slabs[a[1]]
        /\ b[1] \in Caches /\ b[2] \in DOMAIN mem.slabs[b[1]]
        /\ a = <<a[1], a[2]>> /\ b = <<b[1], b[2]>>
    BY DEF SlabPages
  <2>2. Apart(mem)
    BY DEF KmemInv, MemInv
  <2> QED
    BY <2>1, <2>2 DEF Apart
<1> QED
  BY <1>1, KmemInvariant, PTL

(* The counts of a cache add up whatever slab kmem_cache_free gives an     *)
(* object to; and as long as that is the object's own slab, every object   *)
(* of every slab is in use or free, and none is both, for every capacity   *)
(* and every number of pages.                                              *)
THEOREM ObjectsKept == Spec => []ObjectsConserved
<1>1. KmemInv => ObjectsConserved
  <2> SUFFICES ASSUME KmemInv, NEW c \in ClientCaches
               PROVE  /\ Cardinality(live[c]) + NrFree(mem.slabs[c]) = Capacity[c] * Len(mem.slabs[c])
                      /\ ~mixed =>
                           /\ live[c] \cap FreeObjects(c) = {}
                           /\ live[c] \union FreeObjects(c) =
                                UNION {{mem.slabs[c][i].page} \X (1..Capacity[c]) :
                                         i \in DOMAIN mem.slabs[c]}
    BY DEF ObjectsConserved
  <2> DEFINE st == mem.slabs[c]
             lv == live[c]
  <2>1. CacheInv(c, st, lv, mem.pages, mixed) /\ st \in Seq(Slab)
    BY DEF KmemInv, CacheInv
  <2>2. Cardinality(lv) + NrFree(st) = Capacity[c] * Len(st)
    BY <2>1 DEF CacheInv
  <2>3. DOMAIN st = 1..Len(st)
    BY <2>1, LenProperties
  <2>4. \A i \in 1..Len(st) : DOMAIN st[i].list = 1..Len(st[i].list)
    BY <2>1, ElementOfSeq, LenProperties DEF Slab
  <2>5. ASSUME NEW o
        PROVE  o \in FreeObjects(c) <=>
                 \E i \in 1..Len(st) : \E k \in 1..Len(st[i].list) : o = st[i].list[k]
    <3> HIDE DEF st
    <3>1. FreeObjects(c) = UNION {{st[i].list[j] : j \in DOMAIN st[i].list} : i \in DOMAIN st}
      BY DEF FreeObjects, st
    <3> QED
      BY <2>3, <2>4, <3>1
  <2>6. /\ Listed(c, st, lv) /\ LivePlaced(st, lv, mem.pages, mixed) /\ lv \subseteq Objects(c)
        /\ ~mixed => OwnLists(c, st, lv)
    BY <2>1 DEF CacheInv
  <2> HIDE DEF st, lv
  <2>7. lv \cap FreeObjects(c) = {}
    BY <2>5, <2>6 DEF Listed
  <2>8. ASSUME ~mixed, NEW o
        PROVE  o \in lv \union FreeObjects(c) <=>
                 \E i \in DOMAIN st : o \in {st[i].page} \X (1..Capacity[c])
    <3>1. ASSUME o \in lv PROVE \E i \in DOMAIN st : o \in {st[i].page} \X (1..Capacity[c])
      <4>1. PICK i \in 1..Len(st) : st[i].page = PageOf(o)
        BY <2>6, <2>8, <3>1 DEF LivePlaced
      <4>2. o \in {st[i].page} \X (1..Capacity[c])
        BY <2>6, <3>1, <4>1 DEF Objects, PageOf
      <4> QED
        BY <2>3, <4>2
    <3>2. ASSUME o \in FreeObjects(c)
          PROVE  \E i \in DOMAIN st : o \in {st[i].page} \X (1..Capacity[c])
      <4>0. PICK i \in 1..Len(st) : \E k \in 1..Len(st[i].list) : o = st[i].list[k]
        BY <2>5, <3>2
      <4>1. PICK k \in 1..Len(st[i].list) : o = st[i].list[k]
        BY <4>0
      <4>2. o \in Objects(c) /\ PageOf(o) = st[i].page
        BY <2>6, <2>8, <4>1 DEF Listed, OwnLists
      <4>3. o \in {st[i].page} \X (1..Capacity[c])
        BY <4>2 DEF Objects, PageOf
      <4> QED
        BY <2>3, <4>3
    <3>3. ASSUME NEW i \in DOMAIN st, o \in {st[i].page} \X (1..Capacity[c])
          PROVE  o \in lv \union FreeObjects(c)
      <4>1. PICK n \in 1..Capacity[c] : o = <<st[i].page, n>>
        BY <3>3
      <4>2. o \in lv \/ \E k \in 1..Len(st[i].list) : st[i].list[k] = o
        BY <2>3, <2>6, <2>8, <4>1, Zenon DEF OwnLists
      <4> QED
        BY <2>3, <2>5, <4>2, Zenon
    <3> QED
      BY <3>1, <3>2, <3>3
  <2>9. ~mixed => lv \union FreeObjects(c) =
                    UNION {{st[i].page} \X (1..Capacity[c]) : i \in DOMAIN st}
    BY <2>8
  <2> QED
    BY <2>2, <2>7, <2>9 DEF st, lv
<1> QED
  BY <1>1, KmemInvariant, PTL
=============================================================================
