------------------------ MODULE MemoryArena_proofs ------------------------
(***************************************************************************)
(* The invariants of the page allocator, for every memory map, page size   *)
(* and sequence of allocations.                                            *)
(***************************************************************************)
EXTENDS MemoryArena, WellFoundedInduction, SequenceTheorems, TLAPS

Multiple(x, a) == \E q \in Int : x = q * a

LEMMA DivMod ==
    ASSUME NEW v \in Nat, NEW a \in Nat \ {0}
    PROVE  /\ v % a \in 0..(a - 1) /\ v \div a \in Nat
           /\ v = (v \div a) * a + (v % a)
<1>1. v = (v \div a) * a + (v % a)
  BY SMT
<1>2. v % a \in 0..(a - 1)
  OBVIOUS
<1>3. v \div a \in Nat
  OBVIOUS
<1> QED
  BY <1>1, <1>2, <1>3

LEMMA AlignDownFacts ==
    ASSUME NEW v \in Nat, NEW a \in Nat \ {0}
    PROVE  /\ AlignDown(v, a) \in Nat /\ Multiple(AlignDown(v, a), a)
           /\ AlignDown(v, a) <= v /\ v < AlignDown(v, a) + a
<1>1. AlignDown(v, a) = (v \div a) * a
  BY DivMod DEF AlignDown
<1>2. v \div a \in Int /\ v % a \in 0..(a - 1)
  BY DivMod
<1> QED
  BY <1>1, <1>2 DEF AlignDown, Multiple

LEMMA AlignUpFacts ==
    ASSUME NEW v \in Nat, NEW a \in Nat \ {0}
    PROVE  /\ AlignUp(v, a) \in Nat /\ Multiple(AlignUp(v, a), a)
           /\ v <= AlignUp(v, a) /\ AlignUp(v, a) < v + a
<1>1. v + a - 1 \in Nat
  OBVIOUS
<1> QED
  BY <1>1, AlignDownFacts DEF AlignUp

(* Multiples of a page size.                                               *)
LEMMA SumIsNatural == \A x, y \in Nat : x + y \in Nat
  OBVIOUS

LEMMA MultipleSum ==
    ASSUME NEW a \in Int, NEW x \in Int, NEW y \in Int, Multiple(x, a), Multiple(y, a)
    PROVE  Multiple(x + y, a) /\ Multiple(x - y, a)
<1>1. PICK q \in Int : x = q * a
  BY Zenon DEF Multiple
<1>2. PICK r \in Int : y = r * a
  BY Zenon DEF Multiple
<1>3. (q + r) * a = q * a + r * a /\ (q - r) * a = q * a - r * a
  OBVIOUS
<1>4. x + y = (q + r) * a /\ x - y = (q - r) * a
  BY <1>1, <1>2, <1>3
<1>5. q + r \in Int /\ q - r \in Int
  OBVIOUS
<1> QED
  BY ONLY <1>4, <1>5, Zenon DEF Multiple

LEMMA MultipleAtLeast ==
    ASSUME NEW a \in Nat \ {0}, NEW x \in Int, Multiple(x, a), x > 0
    PROVE  x >= a
<1>1. PICK q \in Int : x = q * a
  BY DEF Multiple
<1>2. q >= 1
  <2> SUFFICES ASSUME q <= 0 PROVE FALSE
    BY <1>1
  <2>1. q * a <= 0
    OBVIOUS
  <2> QED
    BY <1>1, <2>1
<1>3. q * a >= 1 * a
  BY <1>2
<1> QED
  BY <1>1, <1>3

LEMMA PageSizes ==
    /\ PageSmall \in Nat \ {0} /\ PageLarge \in Nat \ {0}
    /\ \A k \in Kinds : PageSize(k) \in Nat \ {0} /\ Multiple(PageSize(k), PageSize(k))
    /\ \A x \in Int : Multiple(x, PageLarge) => Multiple(x, PageSmall)
<1>1. PageSmall \in Nat \ {0} /\ PageLarge \in Nat \ {0} /\ PageLarge % PageSmall = 0
  BY PageAssumption
<1>2. PageLarge = (PageLarge \div PageSmall) * PageSmall /\ PageLarge \div PageSmall \in Int
  BY <1>1, DivMod
<1>3. ASSUME NEW x \in Int, Multiple(x, PageLarge) PROVE Multiple(x, PageSmall)
  <2>1. PICK q \in Int : x = q * PageLarge
    BY <1>3 DEF Multiple
  <2> DEFINE d == PageLarge \div PageSmall
  <2>2. d \in Int /\ PageLarge = d * PageSmall
    BY <1>1, <1>2
  <2> HIDE DEF d
  <2>3. q * (d * PageSmall) = (q * d) * PageSmall /\ q * d \in Int
    BY <1>1, <2>2
  <2> QED
    BY <2>1, <2>2, <2>3 DEF Multiple
<1>4. \A a \in Nat : a = 1 * a
  OBVIOUS
<1> QED
  BY <1>1, <1>3, <1>4 DEF Multiple, Kinds, PageSize

(* A set of naturals that is not empty has a least element.                *)
LEMMA LeastNatural ==
    ASSUME NEW T, T \subseteq Nat, T # {}
    PROVE  \E x \in T : \A y \in T : ~(y < x)
<1>1. PICK x \in T : \A y \in T : <<y, x>> \notin OpToRel(<, Nat)
  BY NatLessThanWellFounded, WFMin, Zenon
<1>2. \A y \in T : ~(y < x)
  BY <1>1, Zenon DEF OpToRel
<1> QED
  BY <1>2
-----------------------------------------------------------------------------
(* The span parse_memory_map registers for a region: whole pages, inside   *)
(* the region and above the kernel and the initrd.                         *)
LEMMA SpanFacts ==
    ASSUME map \in MemoryMaps, NEW i \in DOMAIN map, ~Skipped(map[i]),
           NEW sp, sp = SpanOf(map[i])
    PROVE  /\ sp.base \in Nat /\ sp.size \in Nat /\ sp.size > 0
           /\ Multiple(sp.base, PageSmall) /\ Multiple(sp.size, PageSmall)
           /\ sp.base >= KernelEnd /\ sp.base >= InitrdEnd
           /\ map[i].available /\ map[i].base \in Nat /\ EntryEnd(map[i]) \in Nat
           /\ map[i].base <= sp.base /\ End(sp) <= EntryEnd(map[i])
           /\ EntryEnd(map[i]) < End(sp) + PageSmall
           /\ End(sp) + PageLarge <= AddrMod
<1> DEFINE e == map[i]
           b == Larger(e.base, Larger(KernelEnd, InitrdEnd))
<1>1. e \in [base: Nat, length: Nat, available: BOOLEAN]
  <2>1. map \in Seq([base: Nat, length: Nat, available: BOOLEAN])
    BY MapAssumption
  <2> QED
    BY <2>1, ElementOfSeq, LenProperties, Zenon
<1>2. /\ b \in Nat /\ b >= KernelEnd /\ b >= InitrdEnd /\ e.base <= b
      /\ b <= EntryEnd(e) /\ EntryEnd(e) \in Nat
  BY <1>1, MapAssumption DEF Larger, Skipped, EntryEnd
<1>3. e.available
  BY DEF Skipped
<1>4. sp = Seg(AlignUp(b, PageSmall), AlignDown(EntryEnd(e) - b, PageSmall))
  BY DEF SpanOf
<1>5. sp.base = AlignUp(b, PageSmall) /\ sp.size = AlignDown(EntryEnd(e) - b, PageSmall)
  BY <1>4 DEF Seg
<1> HIDE DEF e, b
<1>6. EntryEnd(e) - b \in Nat
  BY <1>2
<1>7. /\ sp.base \in Nat /\ Multiple(sp.base, PageSmall) /\ b <= sp.base
  BY <1>2, <1>5, AlignUpFacts, PageSizes
<1>8. /\ sp.size \in Nat /\ Multiple(sp.size, PageSmall)
      /\ EntryEnd(e) - b < sp.size + PageSmall
  BY <1>5, <1>6, AlignDownFacts, PageSizes
<1>9. /\ sp.size > 0 /\ End(sp) <= EntryEnd(e) /\ EntryEnd(e) + PageLarge <= AddrMod
  BY RegionAssumption DEF e
<1>10. End(sp) = sp.base + sp.size
  BY DEF End
<1>c. PageSmall \in Nat /\ PageLarge \in Nat /\ AddrMod \in Nat
  BY PageSizes, PageAssumption
<1>11. EntryEnd(e) < End(sp) + PageSmall /\ End(sp) + PageLarge <= AddrMod
  BY ONLY <1>2, <1>7, <1>8, <1>9, <1>10, <1>c
<1>12. e.base \in Nat /\ e.base <= sp.base /\ sp.base >= KernelEnd /\ sp.base >= InitrdEnd
  <2>1. e.base \in Nat /\ KernelEnd \in Nat /\ InitrdEnd \in Nat
    BY <1>1, MapAssumption
  <2> QED
    BY ONLY <1>2, <1>7, <2>1
<1> QED
  BY <1>2, <1>3, <1>7, <1>8, <1>9, <1>11, <1>12 DEF e

(* The pieces of a span with a border of a large page in it: its small     *)
(* pages below the first border, its large pages, and its small pages      *)
(* above the last border.                                                  *)
Piece(k, sp) == IF k = "small" THEN SmallSegs(sp) ELSE LargeSegs(sp)

LEMMA SegFields ==
    \A x, y : Seg(x, y).base = x /\ Seg(x, y).size = y /\ End(Seg(x, y)) = x + y
  BY DEF Seg, End

LEMMA BorderFacts ==
    ASSUME NEW sp, sp.base \in Nat, sp.size \in Nat
    PROVE  /\ LargeStart(sp) \in Nat /\ LargeEnd(sp) \in Nat /\ End(sp) \in Nat
           /\ Multiple(LargeStart(sp), PageLarge) /\ Multiple(LargeEnd(sp), PageLarge)
           /\ sp.base <= LargeStart(sp) /\ LargeStart(sp) < sp.base + PageLarge
           /\ LargeEnd(sp) <= End(sp) /\ End(sp) < LargeEnd(sp) + PageLarge
<1>1. End(sp) \in Nat
  BY DEF End
<1> QED
  BY <1>1, AlignUpFacts, AlignDownFacts, PageSizes, Zenon DEF LargeStart, LargeEnd

LEMMA PieceCases ==
    ASSUME NEW sp, sp.base \in Nat, sp.size \in Nat,
           End(sp) + PageLarge <= AddrMod, LargeStart(sp) <= LargeEnd(sp), NEW k \in Kinds
    PROVE  \A s : s \in Piece(k, sp) <=>
             \/ /\ k = "small" /\ s = Seg(sp.base, LargeStart(sp) - sp.base)
                /\ sp.base < LargeStart(sp)
             \/ /\ k = "large" /\ s = Seg(LargeStart(sp), LargeEnd(sp) - LargeStart(sp))
                /\ LargeStart(sp) < LargeEnd(sp)
             \/ /\ k = "small" /\ s = Seg(LargeEnd(sp), End(sp) - LargeEnd(sp))
                /\ LargeEnd(sp) < End(sp)
<1> DEFINE ls == LargeStart(sp)
           le == LargeEnd(sp)
<1>1. /\ ls \in Nat /\ le \in Nat /\ End(sp) \in Nat /\ sp.base <= ls /\ le <= End(sp)
      /\ PageLarge \in Nat /\ PageLarge > 0 /\ AddrMod \in Nat /\ ls <= le
      /\ End(sp) < AddrMod
  BY BorderFacts, PageAssumption
<1> HIDE DEF ls, le
<1>2. \A x \in 0..(AddrMod - 1) : x % AddrMod = x
  BY <1>1
<1>3. /\ (ls - sp.base) % AddrMod = ls - sp.base
      /\ (le - ls) % AddrMod = le - ls
      /\ (End(sp) - le) % AddrMod = End(sp) - le
  BY <1>1, <1>2
<1>4. \A s : s \in SmallSegs(sp) <=>
               \/ sp.base # ls /\ s = Seg(sp.base, ls - sp.base)
               \/ End(sp) # le /\ s = Seg(le, End(sp) - le)
  BY <1>3 DEF SmallSegs, SpanSegs, ls, le
<1>5. \A s : s \in LargeSegs(sp) <=> ls # le /\ s = Seg(ls, le - ls)
  BY <1>3 DEF LargeSegs, SpanSegs, ls, le
<1>6. (sp.base # ls <=> sp.base < ls) /\ (End(sp) # le <=> le < End(sp)) /\ (ls # le <=> ls < le)
  BY <1>1
<1> QED
  BY <1>4, <1>5, <1>6 DEF Piece, Kinds, ls, le

LEMMA PieceShape ==
    ASSUME NEW sp, sp.base \in Nat, sp.size \in Nat,
           Multiple(sp.base, PageSmall), Multiple(sp.size, PageSmall),
           End(sp) + PageLarge <= AddrMod, LargeStart(sp) <= LargeEnd(sp),
           NEW k \in Kinds, NEW s \in Piece(k, sp)
    PROVE  /\ s \in [base: Nat, size: Nat] /\ s.size > 0
           /\ Multiple(s.base, PageSize(k)) /\ Multiple(s.size, PageSize(k))
           /\ sp.base <= s.base /\ End(s) <= End(sp)
           /\ s.base \in {sp.base, LargeStart(sp), LargeEnd(sp)}
<1>1. /\ LargeStart(sp) \in Nat /\ LargeEnd(sp) \in Nat /\ End(sp) \in Nat
      /\ Multiple(LargeStart(sp), PageLarge) /\ Multiple(LargeEnd(sp), PageLarge)
      /\ sp.base <= LargeStart(sp) /\ LargeEnd(sp) <= End(sp)
  BY BorderFacts
<1>0. /\ PageSmall \in Int /\ PageLarge \in Int /\ sp.base \in Int /\ sp.size \in Int
      /\ LargeStart(sp) \in Int /\ LargeEnd(sp) \in Int /\ End(sp) \in Int
  BY <1>1, PageSizes
<1>2. /\ Multiple(LargeStart(sp), PageSmall) /\ Multiple(LargeEnd(sp), PageSmall)
      /\ Multiple(End(sp), PageSmall)
  <2>1. Multiple(sp.base + sp.size, PageSmall)
    BY <1>0, MultipleSum, Zenon
  <2> QED
    BY <1>1, <2>1, PageSizes DEF End
<1>3. CASE /\ k = "small" /\ s = Seg(sp.base, LargeStart(sp) - sp.base)
           /\ sp.base < LargeStart(sp)
  <2>1. Multiple(LargeStart(sp) - sp.base, PageSmall)
    BY <1>0, <1>1, <1>2, MultipleSum, Zenon
  <2> QED
    <3>1. s.base + s.size = End(s) /\ s \in [base: Nat, size: Nat]
      BY <1>1, <1>3 DEF Seg, End
    <3> QED
      BY <1>1, <1>3, <2>1, <3>1, SegFields DEF PageSize
<1>4. CASE /\ k = "large" /\ s = Seg(LargeStart(sp), LargeEnd(sp) - LargeStart(sp))
           /\ LargeStart(sp) < LargeEnd(sp)
  <2>1. Multiple(LargeEnd(sp) - LargeStart(sp), PageLarge)
    BY <1>0, <1>1, MultipleSum
  <2> QED
    <3>1. s.base + s.size = End(s) /\ s \in [base: Nat, size: Nat]
      BY <1>1, <1>4 DEF Seg, End
    <3> QED
      BY <1>1, <1>4, <2>1, <3>1, SegFields DEF PageSize
<1>5. CASE /\ k = "small" /\ s = Seg(LargeEnd(sp), End(sp) - LargeEnd(sp))
           /\ LargeEnd(sp) < End(sp)
  <2>1. Multiple(End(sp) - LargeEnd(sp), PageSmall)
    BY <1>0, <1>1, <1>2, MultipleSum
  <2> QED
    <3>1. s.base + s.size = End(s) /\ s \in [base: Nat, size: Nat]
      BY <1>1, <1>5 DEF Seg, End
    <3> QED
      BY <1>1, <1>2, <1>5, <2>1, <3>1, SegFields DEF PageSize
<1> QED
  BY <1>3, <1>4, <1>5, PieceCases

LEMMA PiecesApart ==
    ASSUME NEW sp, sp.base \in Nat, sp.size \in Nat,
           End(sp) + PageLarge <= AddrMod, LargeStart(sp) <= LargeEnd(sp),
           NEW j \in Kinds, NEW s \in Piece(j, sp), NEW k \in Kinds, NEW t \in Piece(k, sp)
    PROVE  (j = k /\ s = t) \/ Apart(s, t)
<1>1. /\ LargeStart(sp) \in Nat /\ LargeEnd(sp) \in Nat /\ End(sp) \in Nat
      /\ sp.base <= LargeStart(sp) /\ LargeEnd(sp) <= End(sp)
  BY BorderFacts
<1> QED
  BY <1>1, SegFields, PieceCases DEF Apart

LEMMA PiecesCover ==
    ASSUME NEW sp, sp.base \in Nat, sp.size \in Nat,
           End(sp) + PageLarge <= AddrMod, LargeStart(sp) <= LargeEnd(sp),
           NEW a \in sp.base..(End(sp) - 1)
    PROVE  \E k \in Kinds : \E s \in Piece(k, sp) : s.base <= a /\ a < End(s)
<1>1. /\ LargeStart(sp) \in Nat /\ LargeEnd(sp) \in Nat /\ End(sp) \in Nat
      /\ sp.base <= LargeStart(sp) /\ LargeEnd(sp) <= End(sp) /\ a \in Int
  BY BorderFacts
<1>3. "small" \in Kinds /\ "large" \in Kinds
  BY DEF Kinds
<1>4. CASE a < LargeStart(sp)
  <2>1. Seg(sp.base, LargeStart(sp) - sp.base) \in Piece("small", sp)
    BY <1>1, <1>3, <1>4, PieceCases
  <2> QED
    BY <1>1, SegFields, <1>3, <1>4, <2>1
<1>5. CASE LargeStart(sp) <= a /\ a < LargeEnd(sp)
  <2>1. Seg(LargeStart(sp), LargeEnd(sp) - LargeStart(sp)) \in Piece("large", sp)
    BY <1>1, <1>3, <1>5, PieceCases
  <2> QED
    BY <1>1, SegFields, <1>3, <1>5, <2>1
<1>6. CASE LargeEnd(sp) <= a
  <2>1. Seg(LargeEnd(sp), End(sp) - LargeEnd(sp)) \in Piece("small", sp)
    BY <1>1, <1>3, <1>6, PieceCases
  <2> QED
    BY <1>1, SegFields, <1>3, <1>6, <2>1
<1> QED
  BY <1>1, <1>4, <1>5, <1>6
-----------------------------------------------------------------------------
Segments == [base: Nat, size: Nat]

(* alloc's first segment exists.                                           *)
LEMMA FrontFacts ==
    ASSUME NEW segs \in SUBSET Segments, segs # {}
    PROVE  Front(segs) \in segs
<1> DEFINE T == {s.base : s \in segs}
<1>1. T \subseteq Nat /\ T # {}
  BY DEF Segments
<1>2. PICK x \in T : \A y \in T : ~(y < x)
  BY <1>1, LeastNatural, Zenon
<1>3. PICK s \in segs : x = s.base
  BY <1>2
<1>4. \A t \in segs : s.base <= t.base
  BY <1>1, <1>2, <1>3 DEF Segments
<1> QED
  BY <1>3, <1>4 DEF Front

(* free: what is left of the arena when a page p of size n that is apart   *)
(* from all its segments comes back.  A segment that ends at p is the      *)
(* nearest below it, so that predecessor and successor are both absorbed.  *)
LEMMA FreeShape ==
    ASSUME NEW segs \in SUBSET Segments,
           \A s \in segs : s.size > 0,
           \A s, t \in segs : s = t \/ Apart(s, t),
           NEW p \in Nat, NEW n \in Nat, n > 0,
           \A s \in segs : Apart(Seg(p, n), s)
    PROVE  \E lo, hi \in Nat :
             /\ AfterFree(segs, p, n) =
                  {s \in segs : s.base # p + n /\ End(s) # p} \union {Seg(lo, hi - lo)}
             /\ lo <= p /\ p + n <= hi
             /\ \/ lo = p /\ \A s \in segs : End(s) # p
                \/ \E s \in segs : s.base = lo /\ End(s) = p
             /\ \/ hi = p + n /\ \A s \in segs : s.base # p + n
                \/ \E s \in segs : s.base = p + n /\ End(s) = hi
<1> DEFINE next == NextOf(segs, p + n)
           prev == PrevOf(segs, p)
           lo == IF prev = {} THEN p ELSE (CHOOSE s \in prev : TRUE).base
           hi == IF next = {} THEN p + n ELSE End(CHOOSE s \in next : TRUE)
<1>1. \A s \in segs : s.base \in Nat /\ s.size \in Nat /\ End(s) = s.base + s.size
  BY DEF Segments, End
<1>2. \A s \in segs : s \in prev <=> End(s) = p
  <2> SUFFICES ASSUME NEW s \in segs, End(s) = p PROVE s \in prev
    BY DEF PrevOf
  <2>1. s.base < p
    BY <1>1
  <2>2. ASSUME NEW t \in segs, t.base < p PROVE t.base <= s.base
    BY <1>1, <2>2 DEF Apart
  <2> QED
    BY <2>1, <2>2 DEF PrevOf
<1>3. \A s \in segs : s \in next <=> s.base = p + n
  BY DEF NextOf
<1>4. prev \subseteq segs /\ next \subseteq segs
  BY DEF PrevOf, NextOf
<1>5. AfterFree(segs, p, n) = (segs \ (next \union prev)) \union {Seg(lo, hi - lo)}
  BY DEF AfterFree
<1>6. segs \ (next \union prev) = {s \in segs : s.base # p + n /\ End(s) # p}
  BY <1>2, <1>3
<1>7. /\ lo \in Nat /\ lo <= p
      /\ \/ lo = p /\ \A s \in segs : End(s) # p
         \/ \E s \in segs : s.base = lo /\ End(s) = p
  <2>1. CASE prev = {}
    BY <1>2, <2>1
  <2>2. CASE prev # {}
    <3>1. PICK s \in prev : s = CHOOSE u \in prev : TRUE
      BY <2>2
    <3>2. s \in segs /\ lo = s.base /\ End(s) = p
      BY <1>2, <1>4, <2>2, <3>1
    <3> HIDE DEF lo
    <3> QED
      BY <1>1, <3>2
  <2> QED
    BY <2>1, <2>2
<1>8. /\ hi \in Nat /\ p + n <= hi
      /\ \/ hi = p + n /\ \A s \in segs : s.base # p + n
         \/ \E s \in segs : s.base = p + n /\ End(s) = hi
  <2>1. CASE next = {}
    BY <1>3, <2>1
  <2>2. CASE next # {}
    <3>1. PICK s \in next : s = CHOOSE u \in next : TRUE
      BY <2>2
    <3>2. s \in segs /\ hi = End(s) /\ s.base = p + n
      BY <1>3, <1>4, <2>2, <3>1
    <3> HIDE DEF hi
    <3> QED
      BY <1>1, <3>2
  <2> QED
    BY <2>1, <2>2
<1> HIDE DEF lo, hi, next, prev
<1> QED
  BY <1>5, <1>6, <1>7, <1>8
-----------------------------------------------------------------------------
(* What parse_memory_map has registered after n entries of the map.        *)
PiecesTo(k, n) ==
    UNION {Piece(k, SpanOf(map[i])) : i \in {j \in 1..n : ~Skipped(map[j])}}

Page(k, p) == Seg(p, PageSize(k))
InRegion(a) == \E i \in DOMAIN map :
                 map[i].available /\ map[i].base <= a /\ a < EntryEnd(map[i])
Available(s) == /\ s.base >= KernelEnd /\ s.base >= InitrdEnd
                /\ \A a \in s.base..(End(s) - 1) : InRegion(a)

ArenaTypeOK ==
    /\ map \in MemoryMaps
    /\ todo \in Seq([base: Nat, length: Nat, available: BOOLEAN])
    /\ free \in [Kinds -> SUBSET Segments]
    /\ used \in [Kinds -> SUBSET Nat]

(* While the map is being parsed, and ever after for a map that has a span *)
(* without a border, the arenas are the registered pieces.                 *)
Parsing ==
    /\ Len(todo) <= Len(map)
    /\ \A j \in 1..Len(todo) : todo[j] = map[Len(map) - Len(todo) + j]
    /\ todo # << >> \/ ~Bordered =>
         \A k \in Kinds : used[k] = {} /\ free[k] = PiecesTo(k, Len(map) - Len(todo))

(* Segments and pages in use consist of whole pages and are pairwise       *)
(* apart; two segments of an arena touch at a seam only.                   *)
WholePages ==
    \A k \in Kinds : \A s \in free[k] :
        s.size > 0 /\ Multiple(s.base, PageSize(k)) /\ Multiple(s.size, PageSize(k))
FreeApart ==
    \A j, k \in Kinds : \A s \in free[j], t \in free[k] : (j = k /\ s = t) \/ Apart(s, t)
UsedApart ==
    /\ \A j, k \in Kinds : \A p \in used[j], t \in free[k] : Apart(Page(j, p), t)
    /\ \A j, k \in Kinds : \A p \in used[j], q \in used[k] :
          (j = k /\ p = q) \/ Apart(Page(j, p), Page(k, q))
TouchAtSeams ==
    \A k \in Kinds : \A s, t \in free[k] : End(s) = t.base => t.base \in Seams
AllAvailable ==
    \A k \in Kinds : /\ \A s \in free[k] : Available(s)
                     /\ \A p \in used[k] : Available(Page(k, p)) /\ Multiple(p, PageSize(k))
Known(a) == \E k \in Kinds : \/ \E s \in free[k] : s.base <= a /\ a < End(s)
                             \/ \E p \in used[k] : p <= a /\ a < p + PageSize(k)
AllKnown ==
    todo = << >> => \A sp \in Registered : \A a \in sp.base..(End(sp) - 1) : Known(a)

ArenaInv ==
    /\ ArenaTypeOK /\ Parsing
    /\ Bordered => /\ WholePages /\ FreeApart /\ UsedApart /\ TouchAtSeams
                   /\ AllAvailable /\ AllKnown
-----------------------------------------------------------------------------
(* The registered pieces of a map whose spans all have a border are a heap *)
(* as the invariant describes it: regions do not overlap, and a span stays *)
(* inside its region.                                                      *)
LEMMA RegisteredPieces ==
    ASSUME ArenaTypeOK, Bordered, NEW n \in 0..Len(map)
    PROVE  /\ \A k \in Kinds : \A s \in PiecesTo(k, n) :
                /\ s \in Segments /\ s.size > 0
                /\ Multiple(s.base, PageSize(k)) /\ Multiple(s.size, PageSize(k))
                /\ Available(s) /\ s.base \in Seams
           /\ \A j, k \in Kinds : \A s \in PiecesTo(j, n), t \in PiecesTo(k, n) :
                (j = k /\ s = t) \/ Apart(s, t)
<1>0. DOMAIN map = 1..Len(map) /\ Len(map) \in Nat
  BY MapAssumption, LenProperties DEF ArenaTypeOK
<1>1. \A k \in Kinds : \A s \in PiecesTo(k, n) :
        \E i \in DOMAIN map : ~Skipped(map[i]) /\ s \in Piece(k, SpanOf(map[i]))
  <2>1. \A i \in 1..n : i \in DOMAIN map
    BY <1>0
  <2> QED
    BY <2>1 DEF PiecesTo
<1>2. \A i \in DOMAIN map : ~Skipped(map[i]) =>
        SpanOf(map[i]) \in Registered /\ LargeStart(SpanOf(map[i])) <= LargeEnd(SpanOf(map[i]))
  BY DEF Registered, Bordered
<1>3. ASSUME NEW k \in Kinds, NEW i \in DOMAIN map, ~Skipped(map[i]),
             NEW s \in Piece(k, SpanOf(map[i]))
      PROVE  /\ s \in Segments /\ s.size > 0
             /\ Multiple(s.base, PageSize(k)) /\ Multiple(s.size, PageSize(k))
             /\ map[i].base \in Nat /\ EntryEnd(map[i]) \in Nat /\ map[i].available
             /\ map[i].base <= s.base /\ End(s) <= EntryEnd(map[i]) /\ End(s) \in Nat
             /\ Available(s) /\ s.base \in Seams
  <2> DEFINE sp == SpanOf(map[i])
  <2>1. /\ sp.base \in Nat /\ sp.size \in Nat
        /\ Multiple(sp.base, PageSmall) /\ Multiple(sp.size, PageSmall)
        /\ sp.base >= KernelEnd /\ sp.base >= InitrdEnd
        /\ map[i].available /\ map[i].base \in Nat /\ EntryEnd(map[i]) \in Nat
        /\ map[i].base <= sp.base /\ End(sp) <= EntryEnd(map[i])
        /\ End(sp) + PageLarge <= AddrMod
    BY <1>3, SpanFacts DEF ArenaTypeOK
  <2>2. sp \in Registered /\ LargeStart(sp) <= LargeEnd(sp) /\ s \in Piece(k, sp)
    BY <1>2, <1>3
  <2> HIDE DEF sp
  <2>3. /\ s \in [base: Nat, size: Nat] /\ s.size > 0
        /\ Multiple(s.base, PageSize(k)) /\ Multiple(s.size, PageSize(k))
        /\ sp.base <= s.base /\ End(s) <= End(sp)
        /\ s.base \in {sp.base, LargeStart(sp), LargeEnd(sp)}
    BY <2>1, <2>2, PieceShape
  <2>4. s.base \in Seams
    BY <2>2, <2>3 DEF Seams
  <2>5. /\ End(s) \in Nat /\ End(sp) \in Nat /\ s.base \in Nat
        /\ End(s) = s.base + s.size
    <3>1. s.base \in Nat /\ s.size \in Nat
      BY ONLY <2>3, Zenon
    <3>2. sp.base \in Nat /\ sp.size \in Nat
      BY ONLY <2>1, Zenon
    <3> QED
      BY <3>1, <3>2, SumIsNatural, Zenon DEF End
  <2>6. /\ map[i].base <= s.base /\ End(s) <= EntryEnd(map[i])
        /\ s.base >= KernelEnd /\ s.base >= InitrdEnd
    <3>1. KernelEnd \in Nat /\ InitrdEnd \in Nat
      BY MapAssumption
    <3> DEFINE x == s.base
               y == End(s)
               px == sp.base
               py == End(sp)
               rx == map[i].base
               ry == EntryEnd(map[i])
    <3>2. /\ px \in Nat /\ rx \in Nat /\ ry \in Nat /\ rx <= px /\ py <= ry
          /\ px >= KernelEnd /\ px >= InitrdEnd
      BY ONLY <2>1, Zenon
    <3>3. x \in Nat /\ y \in Nat /\ py \in Nat /\ px <= x /\ y <= py
      BY ONLY <2>3, <2>5, Zenon
    <3> HIDE DEF x, y, px, py, rx, ry
    <3>4. rx <= x /\ y <= ry /\ x >= KernelEnd /\ x >= InitrdEnd
      BY ONLY <3>1, <3>2, <3>3
    <3> QED
      BY ONLY <3>4, Zenon DEF x, y, rx, ry
  <2>7. Available(s)
    <3>1. ASSUME NEW a \in s.base..(End(s) - 1) PROVE InRegion(a)
      <4>1. map[i].base <= a /\ a < EntryEnd(map[i])
        BY <2>1, <2>5, <2>6
      <4> QED
        BY <2>1, <4>1 DEF InRegion
    <3> QED
      BY <2>6, <3>1 DEF Available
  <2> QED
    BY <2>1, <2>3, <2>4, <2>5, <2>6, <2>7 DEF Segments
<1>4. ASSUME NEW j \in Kinds, NEW k \in Kinds, NEW s \in PiecesTo(j, n), NEW t \in PiecesTo(k, n)
      PROVE  (j = k /\ s = t) \/ Apart(s, t)
  <2>1. PICK i1 \in DOMAIN map : ~Skipped(map[i1]) /\ s \in Piece(j, SpanOf(map[i1]))
    BY <1>1
  <2>2. PICK i2 \in DOMAIN map : ~Skipped(map[i2]) /\ t \in Piece(k, SpanOf(map[i2]))
    BY <1>1
  <2>3. CASE i1 = i2
    <3> DEFINE sp == SpanOf(map[i1])
    <3>1. sp.base \in Nat /\ sp.size \in Nat /\ End(sp) + PageLarge <= AddrMod
      BY <2>1, SpanFacts DEF ArenaTypeOK
    <3>2. LargeStart(sp) <= LargeEnd(sp)
      BY <1>2, <2>1
    <3> QED
      BY <2>1, <2>2, <2>3, <3>1, <3>2, PiecesApart
  <2>4. CASE i1 # i2
    <3>1. /\ map[i1].available /\ map[i1].base \in Nat /\ EntryEnd(map[i1]) \in Nat
          /\ map[i1].base <= s.base /\ End(s) <= EntryEnd(map[i1]) /\ s.base \in Nat
          /\ End(s) \in Nat
      BY <1>3, <2>1 DEF Segments
    <3>2. /\ map[i2].available /\ map[i2].base \in Nat /\ EntryEnd(map[i2]) \in Nat
          /\ map[i2].base <= t.base /\ End(t) <= EntryEnd(map[i2]) /\ t.base \in Nat
          /\ End(t) \in Nat
      BY <1>3, <2>2 DEF Segments
    <3>3. EntryEnd(map[i1]) <= map[i2].base \/ EntryEnd(map[i2]) <= map[i1].base
      BY <2>4, <3>1, <3>2, RegionAssumption DEF ArenaTypeOK
    <3> QED
      BY <3>1, <3>2, <3>3 DEF Apart
  <2> QED
    BY <2>3, <2>4
<1> QED
  BY <1>1, <1>3, <1>4

LEMMA PieceType ==
    ASSUME NEW sp, sp.base \in Nat, sp.size \in Nat, NEW k \in Kinds
    PROVE  Piece(k, sp) \subseteq Segments
<1>1. LargeStart(sp) \in Nat /\ LargeEnd(sp) \in Nat /\ End(sp) \in Nat
  BY BorderFacts
<1>2. \A x, y \in Nat : SpanSegs(x, y) \subseteq Segments
  <2> TAKE x, y \in Nat
  <2>1. (y - x) % AddrMod \in Nat
    BY PageAssumption
  <2> QED
    BY <2>1 DEF SpanSegs, Seg, Segments
<1> QED
  BY <1>1, <1>2 DEF Piece, SmallSegs, LargeSegs

LEMMA MapUnchanged ==
    ASSUME map' = map
    PROVE  /\ Bordered' <=> Bordered
           /\ Registered' = Registered /\ Seams' = Seams
           /\ \A s : Available(s)' <=> Available(s)
           /\ \A k, n : PiecesTo(k, n)' = PiecesTo(k, n)
<1>1. Registered' = Registered
  BY DEF Registered
<1> QED
  BY <1>1 DEF Bordered, Seams, Available, InRegion, PiecesTo

(* The loop of parse_memory_map.                                           *)
LEMMA ParseEntryStep ==
    ASSUME ArenaInv, ParseEntry
    PROVE  ArenaInv'
<1> DEFINE n == Len(map) - Len(todo)
           Entries == [base: Nat, length: Nat, available: BOOLEAN]
<1>0. /\ ArenaTypeOK /\ Parsing /\ map' = map /\ used' = used
      /\ todo \in Seq(Entries) /\ todo # << >> /\ map \in Seq(Entries) /\ todo' = Tail(todo)
      /\ map \in MemoryMaps
  BY MapAssumption DEF ArenaInv, ArenaTypeOK, ParseEntry
<1>1. /\ Len(todo) \in Nat /\ Len(todo) > 0 /\ Len(map) \in Nat /\ Len(todo) <= Len(map)
      /\ DOMAIN map = 1..Len(map)
  BY <1>0, LenProperties, EmptySeq DEF Parsing
<1>2. /\ todo' \in Seq(Entries) /\ Len(todo') = Len(todo) - 1
      /\ \A j \in 1..Len(todo') : todo'[j] = todo[j + 1]
      /\ Head(todo) = todo[1]
  BY <1>0, HeadTailProperties
<1>3. n \in Nat /\ n + 1 \in 1..Len(map) /\ Len(map) - Len(todo') = n + 1 /\ n + 1 \in DOMAIN map
  BY <1>1, <1>2
<1>4. Head(todo) = map[n + 1]
  <2>1. 1 \in 1..Len(todo) /\ Len(map) - Len(todo) + 1 = n + 1
    BY <1>1
  <2> QED
    BY <1>0, <1>2, <2>1 DEF Parsing
<1>5. \A j \in 1..Len(todo') : todo'[j] = map'[Len(map') - Len(todo') + j]
  <2> TAKE j \in 1..Len(todo')
  <2>1. j + 1 \in 1..Len(todo) /\ Len(map) - Len(todo) + (j + 1) = Len(map) - Len(todo') + j
    BY <1>1, <1>2
  <2>2. todo[j + 1] = map[Len(map) - Len(todo) + (j + 1)]
    BY <1>0, <2>1 DEF Parsing
  <2> QED
    BY <1>0, <1>2, <2>1, <2>2
<1>6. \A k \in Kinds : used[k] = {} /\ free[k] = PiecesTo(k, n)
  BY <1>0 DEF Parsing
<1> HIDE DEF n
<1>7. \A k \in Kinds : PiecesTo(k, n + 1) =
        PiecesTo(k, n) \union (IF Skipped(map[n + 1]) THEN {} ELSE Piece(k, SpanOf(map[n + 1])))
  <2>1. \A i : i \in 1..(n + 1) <=> i \in 1..n \/ i = n + 1
    BY <1>3
  <2> QED
    BY <2>1 DEF PiecesTo
<1>8. \A k \in Kinds : free'[k] = PiecesTo(k, n + 1)
  <2>1. \A k \in Kinds : [small |-> SmallSegs(SpanOf(map[n + 1])),
                          large |-> LargeSegs(SpanOf(map[n + 1]))][k] = Piece(k, SpanOf(map[n + 1]))
    BY DEF Kinds, Piece
  <2>2. \A k \in Kinds : free'[k] = IF Skipped(map[n + 1]) THEN free[k]
                                    ELSE free[k] \union Piece(k, SpanOf(map[n + 1]))
    BY <1>4, <2>1, Zenon DEF ParseEntry
  <2> QED
    BY <1>6, <1>7, <2>2, Zenon
<1>9. free' \in [Kinds -> SUBSET Segments]
  <2>1. free' = [k \in Kinds |-> free'[k]]
    BY <1>0, Zenon DEF ParseEntry, ArenaTypeOK
  <2>2. ASSUME NEW k \in Kinds PROVE PiecesTo(k, n + 1) \subseteq Segments
    <3>1. free[k] \subseteq Segments
      BY <1>0 DEF ArenaTypeOK
    <3>2. CASE Skipped(map[n + 1])
      BY <1>6, <1>7, <3>1, <3>2
    <3>3. CASE ~Skipped(map[n + 1])
      <4>1. SpanOf(map[n + 1]).base \in Nat /\ SpanOf(map[n + 1]).size \in Nat
        BY <1>0, <1>3, <3>3, SpanFacts, Zenon
      <4> QED
        BY <1>6, <1>7, <3>1, <4>1, PieceType
    <3> QED
      BY <3>2, <3>3
  <2> QED
    BY <1>8, <2>1, <2>2
<1>10. ArenaTypeOK'
  BY <1>0, <1>2, <1>9 DEF ArenaTypeOK
<1>11. Parsing'
  <2>1. \A k \in Kinds : used'[k] = {} /\ free'[k] = PiecesTo(k, Len(map) - Len(todo))'
    <3>1. \A k \in Kinds : PiecesTo(k, Len(map) - Len(todo))' = PiecesTo(k, n + 1)
      BY <1>0, <1>3, Zenon DEF PiecesTo
    <3> QED
      BY <1>0, <1>6, <1>8, <3>1
  <2>2. Len(todo') <= Len(map')
    BY <1>0, <1>1, <1>2
  <2> QED
    BY <1>0, <1>5, <2>1, <2>2, Zenon DEF Parsing
<1>12. ASSUME Bordered' PROVE WholePages' /\ FreeApart' /\ UsedApart' /\ TouchAtSeams'
                              /\ AllAvailable' /\ AllKnown'
  <2>1. Bordered /\ n + 1 \in 0..Len(map)
    BY <1>0, <1>1, <1>3, <1>12, MapUnchanged
  <2>2. \A k \in Kinds : \A s \in free'[k] :
                /\ s \in Segments /\ s.size > 0
                /\ Multiple(s.base, PageSize(k)) /\ Multiple(s.size, PageSize(k))
                /\ Available(s)' /\ s.base \in Seams'
    BY <1>0, <1>8, <2>1, RegisteredPieces, MapUnchanged
  <2>3. \A j, k \in Kinds : \A s \in free'[j], t \in free'[k] : (j = k /\ s = t) \/ Apart(s, t)
    BY <1>0, <1>8, <2>1, RegisteredPieces
  <2>4. \A k \in Kinds : used'[k] = {}
    BY <1>0, <1>6
  <2>5. ASSUME todo' = << >>, NEW sp \in Registered', NEW a \in sp.base..(End(sp) - 1)
        PROVE  Known(a)'
    <3>1. PICK i \in DOMAIN map : ~Skipped(map[i]) /\ sp = SpanOf(map[i])
      BY <1>0, MapUnchanged DEF Registered
    <3>2. sp.base \in Nat /\ sp.size \in Nat /\ End(sp) + PageLarge <= AddrMod
      BY <1>0, <3>1, SpanFacts, Zenon
    <3>3. LargeStart(sp) <= LargeEnd(sp)
      BY <1>0, <2>1, <2>5, MapUnchanged DEF Bordered
    <3>4. PICK k \in Kinds : \E s \in Piece(k, sp) : s.base <= a /\ a < End(s)
      BY <3>2, <3>3, PiecesCover
    <3>5. Len(todo') = 0
      BY <2>5
    <3>6. Piece(k, sp) \subseteq PiecesTo(k, n + 1)
      BY <1>1, <1>3, <3>1, <3>5 DEF PiecesTo
    <3> QED
      BY <1>8, <3>4, <3>6 DEF Known
  <2> QED
    BY <2>2, <2>3, <2>4, <2>5 DEF WholePages, FreeApart, UsedApart, TouchAtSeams,
                                  AllAvailable, AllKnown
<1> QED
  BY <1>10, <1>11, <1>12 DEF ArenaInv

(* alloc: the page is split off the first segment, of which the rest, if   *)
(* any, stays.                                                             *)
LEMMA AllocStep ==
    ASSUME ArenaInv, NEW k \in Kinds, Alloc(k)
    PROVE  ArenaInv'
<1> DEFINE n == PageSize(k)
           s == Front(free[k])
           rest == Seg(s.base + n, s.size - n)
<1>0. /\ ArenaTypeOK /\ Parsing /\ WholePages /\ FreeApart /\ UsedApart /\ TouchAtSeams
      /\ AllAvailable /\ AllKnown /\ Bordered /\ todo = << >>
      /\ map' = map /\ todo' = todo /\ free \in [Kinds -> SUBSET Segments]
      /\ used \in [Kinds -> SUBSET Nat]
  BY DEF ArenaInv, Alloc, ArenaTypeOK
<1>1. /\ n \in Nat /\ n > 0 /\ Multiple(n, n)
      /\ \A j \in Kinds : PageSize(j) \in Nat /\ PageSize(j) > 0
  BY PageSizes
<1>2. s \in free[k] /\ s.size >= n
  BY <1>0, FrontFacts DEF Alloc, CanAlloc
<1>3. /\ s.base \in Nat /\ s.size \in Nat /\ End(s) = s.base + s.size /\ s.size > 0
      /\ Multiple(s.base, n) /\ Multiple(s.size, n) /\ Available(s)
  BY <1>0, <1>2 DEF Segments, End, WholePages, AllAvailable
<1>4. /\ used' = [used EXCEPT ![k] = @ \union {s.base}]
      /\ free' = [free EXCEPT ![k] = (@ \ {s}) \union (IF s.size > n THEN {rest} ELSE {})]
  BY DEF Alloc, AfterAlloc
<1> HIDE DEF n, s, rest
<1>5. s.size > n => /\ rest.base = s.base + n /\ rest.size = s.size - n /\ End(rest) = End(s)
                    /\ rest \in Segments
                    /\ rest.size > 0 /\ Multiple(rest.base, n) /\ Multiple(rest.size, n)
  <2>1. rest.base = s.base + n /\ rest.size = s.size - n /\ End(rest) = (s.base + n) + (s.size - n)
    BY SegFields DEF rest
  <2>0. s.base \in Int /\ s.size \in Int /\ n \in Int
    BY <1>1, <1>3
  <2>2. Multiple(s.base + n, n) /\ Multiple(s.size - n, n)
    BY <1>1, <1>3, <2>0, MultipleSum, Zenon
  <2>3. s.size > n => rest \in Segments
    BY <1>1, <1>3 DEF rest, Seg, Segments
  <2> QED
    BY <1>1, <1>3, <2>1, <2>2, <2>3
<1>6. \A j \in Kinds : \A t \in free'[j] :
        \/ t \in free[j] /\ ~(j = k /\ t = s)
        \/ j = k /\ s.size > n /\ t = rest
  BY <1>0, <1>4
<1>7. \A j \in Kinds : \A p \in used'[j] : p \in used[j] \/ (j = k /\ p = s.base)
  BY <1>0, <1>4
<1>8. \A j \in Kinds : \A t \in free[j] : t.base \in Nat /\ t.size \in Nat /\ t.size > 0
                                           /\ End(t) = t.base + t.size
  BY <1>0 DEF Segments, End, WholePages
<1>9. \A j \in Kinds : \A p \in used[j] : /\ p \in Nat /\ Page(j, p).base = p
                                          /\ End(Page(j, p)) = p + PageSize(j)
  BY <1>0, SegFields DEF Page
<1>10. Page(k, s.base).base = s.base /\ End(Page(k, s.base)) = s.base + n
  BY SegFields DEF Page, n
<1>11. ArenaTypeOK'
  <2>1. free' \in [Kinds -> SUBSET Segments]
    BY <1>0, <1>2, <1>4, <1>5
  <2>2. used' \in [Kinds -> SUBSET Nat]
    BY <1>0, <1>3, <1>4
  <2> QED
    BY <1>0, <2>1, <2>2 DEF ArenaTypeOK
<1>12. Parsing'
  BY <1>0, MapUnchanged DEF Parsing
<1>13. WholePages'
  BY <1>0, <1>5, <1>6 DEF WholePages, n
<1>14. FreeApart'
  <2> SUFFICES ASSUME NEW i \in Kinds, NEW j \in Kinds, NEW t \in free'[i], NEW u \in free'[j]
               PROVE  (i = j /\ t = u) \/ Apart(t, u)
    BY DEF FreeApart
  <2>1. CASE t \in free[i] /\ u \in free[j]
    BY <1>0, <2>1 DEF FreeApart
  <2>2. CASE t \in free[i] /\ ~(i = k /\ t = s) /\ j = k /\ s.size > n /\ u = rest
    <3>1. Apart(t, s)
      BY <1>0, <1>2, <2>2 DEF FreeApart
    <3> QED
      BY <1>1, <1>3, <1>5, <1>8, <2>2, <3>1 DEF Apart
  <2>3. CASE u \in free[j] /\ ~(j = k /\ u = s) /\ i = k /\ s.size > n /\ t = rest
    <3>1. Apart(u, s)
      BY <1>0, <1>2, <2>3 DEF FreeApart
    <3> QED
      BY <1>1, <1>3, <1>5, <1>8, <2>3, <3>1 DEF Apart
  <2> QED
    BY <1>6, <2>1, <2>2, <2>3
<1>15. UsedApart'
  <2>1. ASSUME NEW i \in Kinds, NEW j \in Kinds, NEW p \in used'[i], NEW t \in free'[j]
        PROVE  Apart(Page(i, p), t)
    <3>1. CASE p \in used[i] /\ t \in free[j]
      BY <1>0, <3>1 DEF UsedApart
    <3>2. CASE p \in used[i] /\ j = k /\ s.size > n /\ t = rest
      <4>1. Apart(Page(i, p), s)
        BY <1>0, <1>2, <3>2 DEF UsedApart
      <4> QED
        BY <1>1, <1>3, <1>5, <1>9, <3>2, <4>1 DEF Apart
    <3>3. CASE i = k /\ p = s.base /\ t \in free[j] /\ ~(j = k /\ t = s)
      <4>1. Apart(s, t)
        BY <1>0, <1>2, <3>3 DEF FreeApart
      <4> QED
        BY <1>1, <1>2, <1>3, <1>8, <1>10, <3>3, <4>1 DEF Apart
    <3>4. CASE i = k /\ p = s.base /\ j = k /\ s.size > n /\ t = rest
      BY <1>5, <1>1, <1>3, <1>10, <3>4 DEF Apart
    <3> QED
      BY <1>6, <1>7, <3>1, <3>2, <3>3, <3>4
  <2>2. ASSUME NEW i \in Kinds, NEW j \in Kinds, NEW p \in used'[i], NEW q \in used'[j]
        PROVE  (i = j /\ p = q) \/ Apart(Page(i, p), Page(j, q))
    <3>1. CASE p \in used[i] /\ q \in used[j]
      BY <1>0, <3>1 DEF UsedApart
    <3>2. CASE p \in used[i] /\ j = k /\ q = s.base
      <4>1. Apart(Page(i, p), s)
        BY <1>0, <1>2, <3>2 DEF UsedApart
      <4> QED
        BY <1>1, <1>2, <1>3, <1>9, <1>10, <3>2, <4>1 DEF Apart
    <3>3. CASE q \in used[j] /\ i = k /\ p = s.base
      <4>1. Apart(Page(j, q), s)
        BY <1>0, <1>2, <3>3 DEF UsedApart
      <4> QED
        BY <1>1, <1>2, <1>3, <1>9, <1>10, <3>3, <4>1 DEF Apart
    <3> QED
      BY <1>7, <3>1, <3>2, <3>3
  <2> QED
    BY <2>1, <2>2 DEF UsedApart, Page
<1>16. TouchAtSeams'
  <2> SUFFICES ASSUME NEW j \in Kinds, NEW t \in free'[j], NEW u \in free'[j], End(t) = u.base
               PROVE  u.base \in Seams
    BY <1>0, MapUnchanged DEF TouchAtSeams
  <2>1. CASE t \in free[j] /\ u \in free[j]
    BY <1>0, <2>1 DEF TouchAtSeams
  <2>2. CASE j = k /\ s.size > n /\ t = rest /\ u \in free[j]
    BY <1>0, <1>2, <1>5, <2>2 DEF TouchAtSeams
  <2>3. CASE j = k /\ s.size > n /\ u = rest /\ t \in free[j] /\ t # s
    <3>1. Apart(t, s)
      BY <1>0, <1>2, <2>3 DEF FreeApart
    <3>2. FALSE
      BY <1>1, <1>3, <1>5, <1>8, <2>3, <3>1 DEF Apart
    <3> QED
      BY <3>2
  <2>4. CASE j = k /\ s.size > n /\ t = rest /\ u = rest
    BY <1>3, <1>5, <1>1, <2>4
  <2> QED
    BY <1>6, <2>1, <2>2, <2>3, <2>4
<1>17. AllAvailable'
  <2>1. s.size > n => Available(rest)
    BY <1>1, <1>3, <1>5, MapAssumption DEF Available
  <2>2. Available(Page(k, s.base))
    BY <1>1, <1>2, <1>3, <1>10 DEF Available
  <2>3. \A j \in Kinds : \A t \in free'[j] : Available(t)
    BY <1>0, <1>6, <2>1 DEF AllAvailable
  <2>4. \A j \in Kinds : \A p \in used'[j] : Available(Page(j, p)) /\ Multiple(p, PageSize(j))
    BY <1>0, <1>3, <1>7, <2>2 DEF AllAvailable, n
  <2>5. \A j, p : Available(Page(j, p))' <=> Available(Page(j, p))
    BY <1>0 DEF Available, InRegion, Page
  <2> QED
    BY <1>0, <2>3, <2>4, <2>5, MapUnchanged DEF AllAvailable
<1>18. AllKnown'
  <2> SUFFICES ASSUME NEW a \in Int, Known(a) PROVE Known(a)'
    <3>1. \A sp \in Registered : \A a \in sp.base..(End(sp) - 1) : a \in Int /\ Known(a)
      BY <1>0 DEF AllKnown
    <3> QED
      BY <1>0, <3>1, MapUnchanged DEF AllKnown
  <2>1. CASE s.base <= a /\ a < End(s)
    <3>1. s.base \in used'[k]
      BY <1>0, <1>4
    <3>2. s.size > n => rest \in free'[k]
      BY <1>0, <1>4
    <3>3. CASE a < s.base + n
      BY <2>1, <3>1, <3>3 DEF Known, n
    <3>4. CASE a >= s.base + n
      <4>1. s.size > n /\ rest.base <= a /\ a < End(rest)
        BY <1>1, <1>2, <1>3, <1>5, <2>1, <3>4
      <4> QED
        BY <3>2, <4>1 DEF Known
    <3> QED
      BY <1>1, <1>3, <3>3, <3>4
  <2>2. CASE ~(s.base <= a /\ a < End(s))
    <3>1. \A j \in Kinds : \A t \in free[j] : t # s => t \in free'[j]
      BY <1>0, <1>4
    <3>2. \A j \in Kinds : \A p \in used[j] : p \in used'[j]
      BY <1>0, <1>4
    <3> QED
      BY <2>2, <3>1, <3>2 DEF Known
  <2> QED
    BY <2>1, <2>2
<1> QED
  BY <1>11, <1>12, <1>13, <1>14, <1>15, <1>16, <1>17, <1>18 DEF ArenaInv

(* free: the page becomes part of a segment from lo to hi, which absorbs   *)
(* the neighbours that touch it.                                           *)
LEMMA FreeStep ==
    ASSUME ArenaInv, NEW k \in Kinds, NEW p \in used[k], Free(k, p)
    PROVE  ArenaInv'
<1> DEFINE n == PageSize(k)
           segs == free[k]
<1>0. Bordered /\ todo = << >>
  BY DEF ArenaInv, Parsing
<1>1. /\ ArenaTypeOK /\ Parsing /\ WholePages /\ FreeApart /\ UsedApart /\ TouchAtSeams
      /\ AllAvailable /\ AllKnown
      /\ map' = map /\ todo' = todo /\ free \in [Kinds -> SUBSET Segments]
      /\ used \in [Kinds -> SUBSET Nat]
  BY <1>0 DEF ArenaInv, Free, ArenaTypeOK
<1>2. /\ n \in Nat /\ n > 0 /\ Multiple(n, n)
      /\ \A j \in Kinds : PageSize(j) \in Nat /\ PageSize(j) > 0
  BY PageSizes
<1>3. /\ p \in Nat /\ Multiple(p, n) /\ Available(Page(k, p))
      /\ Page(k, p).base = p /\ End(Page(k, p)) = p + n
  BY <1>1, SegFields DEF AllAvailable, Page
<1>4. /\ segs \in SUBSET Segments /\ \A s \in segs : s.size > 0
      /\ \A s, t \in segs : s = t \/ Apart(s, t)
      /\ \A s \in segs : Apart(Seg(p, n), s)
  BY <1>1 DEF WholePages, FreeApart, UsedApart, Page
<1>5. /\ used' = [used EXCEPT ![k] = @ \ {p}]
      /\ free' = [free EXCEPT ![k] = AfterFree(segs, p, n)]
  BY <1>1 DEF Free
<1> HIDE DEF n, segs
<1>6. PICK lo \in Nat, hi \in Nat :
             /\ AfterFree(segs, p, n) =
                  {s \in segs : s.base # p + n /\ End(s) # p} \union {Seg(lo, hi - lo)}
             /\ lo <= p /\ p + n <= hi
             /\ \/ lo = p /\ \A s \in segs : End(s) # p
                \/ \E s \in segs : s.base = lo /\ End(s) = p
             /\ \/ hi = p + n /\ \A s \in segs : s.base # p + n
                \/ \E s \in segs : s.base = p + n /\ End(s) = hi
  BY <1>2, <1>3, <1>4, FreeShape
<1> DEFINE new == Seg(lo, hi - lo)
<1>7. new.base = lo /\ new.size = hi - lo /\ End(new) = hi /\ new \in Segments /\ new.size > 0
  <2>1. new.base = lo /\ new.size = hi - lo /\ End(new) = lo + (hi - lo)
    BY SegFields
  <2>2. new \in Segments
    BY <1>2, <1>3, <1>6 DEF Seg, Segments
  <2> HIDE DEF new
  <2> QED
    BY <1>2, <1>3, <1>6, <2>1, <2>2
<1> HIDE DEF new
<1>8. \A j \in Kinds : \A t \in free'[j] :
        \/ t \in free[j] /\ (j = k => t.base # p + n /\ End(t) # p)
        \/ j = k /\ t = new
  BY <1>1, <1>5, <1>6 DEF new, segs
<1>9. \A j \in Kinds : \A q \in used'[j] : q \in used[j] /\ ~(j = k /\ q = p)
  BY <1>1, <1>5
<1>10. \A j \in Kinds : \A t \in free[j] : t.base \in Nat /\ t.size \in Nat /\ t.size > 0
                                           /\ End(t) = t.base + t.size
  BY <1>1 DEF Segments, End, WholePages
<1>11. \A j \in Kinds : \A q \in used[j] : /\ q \in Nat /\ Page(j, q).base = q
                                          /\ End(Page(j, q)) = q + PageSize(j)
  BY <1>1, SegFields DEF Page
(* What is apart from the page and the neighbours is apart from the whole. *)
<1>12. ASSUME NEW x \in Nat, NEW y \in Nat, x < y, y <= p \/ p + n <= x,
              \A s \in segs : (s.base = p + n \/ End(s) = p) => y <= s.base \/ End(s) <= x
       PROVE  y <= lo \/ hi <= x
  <2>1. CASE y <= p
    BY <1>2, <1>3, <1>6, <1>10, <1>12, <2>1 DEF segs
  <2>2. CASE p + n <= x
    BY <1>2, <1>3, <1>6, <1>10, <1>12, <2>2 DEF segs
  <2> QED
    BY <1>12, <2>1, <2>2
<1>13. ArenaTypeOK'
  <2>1. free' \in [Kinds -> SUBSET Segments]
    BY <1>1, <1>4, <1>5, <1>6, <1>7 DEF new
  <2>2. used' \in [Kinds -> SUBSET Nat]
    BY <1>1, <1>5
  <2> QED
    BY <1>1, <2>1, <2>2 DEF ArenaTypeOK
<1>14. Parsing'
  BY <1>0, <1>1, MapUnchanged DEF Parsing
<1>15. WholePages'
  <2>1. Multiple(lo, n)
    BY <1>1, <1>3, <1>6 DEF WholePages, segs, n
  <2>2. Multiple(hi, n)
    <3>1. CASE hi = p + n
      BY <1>2, <1>3, <3>1, MultipleSum
    <3>2. CASE \E s \in segs : s.base = p + n /\ End(s) = hi
      <4>1. PICK s \in segs : End(s) = hi
        BY <3>2
      <4>2. s.base \in Int /\ s.size \in Int /\ Multiple(s.base, n) /\ Multiple(s.size, n)
            /\ hi = s.base + s.size /\ n \in Int
        BY <1>1, <1>2, <1>10, <4>1 DEF WholePages, segs, n
      <4> QED
        BY <4>2, MultipleSum, Zenon
    <3> QED
      BY <1>6, <3>1, <3>2
  <2>3. Multiple(hi - lo, n)
    <3>1. hi \in Int /\ lo \in Int /\ n \in Int
      BY <1>2
    <3> QED
      BY <2>1, <2>2, <3>1, MultipleSum
  <2> QED
    BY <1>1, <1>7, <1>8, <2>1, <2>3 DEF WholePages, n
<1>16. ASSUME NEW j \in Kinds, NEW t \in free[j], j = k => t.base # p + n /\ End(t) # p
       PROVE  Apart(t, new)
  <2>1. Apart(Page(k, p), t)
    BY <1>1 DEF UsedApart
  <2>2. \A s \in segs : (s.base = p + n \/ End(s) = p) => Apart(t, s)
    BY <1>1, <1>16 DEF FreeApart, segs
  <2>3. t.base \in Nat /\ End(t) \in Nat /\ t.base < End(t)
    BY <1>10
  <2>4. End(t) <= lo \/ hi <= t.base
    BY <1>3, <1>12, <2>1, <2>2, <2>3 DEF Apart
  <2> QED
    BY <1>7, <2>4 DEF Apart
<1>17. FreeApart'
  BY <1>1, <1>8, <1>16 DEF FreeApart, Apart
<1>18. UsedApart'
  <2>1. ASSUME NEW i \in Kinds, NEW j \in Kinds, NEW q \in used'[i], NEW t \in free'[j]
        PROVE  Apart(Page(i, q), t)
    <3>1. CASE t \in free[j]
      BY <1>1, <1>9, <3>1 DEF UsedApart
    <3>2. CASE j = k /\ t = new
      <4>1. q \in used[i] /\ Apart(Page(i, q), Page(k, p))
        BY <1>1, <1>9 DEF UsedApart
      <4>2. \A s \in segs : Apart(Page(i, q), s)
        BY <1>1, <4>1 DEF UsedApart, segs
      <4>3. q \in Nat /\ q + PageSize(i) \in Nat /\ q < q + PageSize(i)
            /\ Page(i, q).base = q /\ End(Page(i, q)) = q + PageSize(i)
        BY <1>2, <1>11, <4>1
      <4>4. q + PageSize(i) <= lo \/ hi <= q
        BY <1>3, <1>12, <4>1, <4>2, <4>3 DEF Apart
      <4> QED
        BY <1>7, <3>2, <4>3, <4>4 DEF Apart
    <3> QED
      BY <1>8, <3>1, <3>2
  <2>2. ASSUME NEW i \in Kinds, NEW j \in Kinds, NEW q \in used'[i], NEW r \in used'[j]
        PROVE  (i = j /\ q = r) \/ Apart(Page(i, q), Page(j, r))
    BY <1>1, <1>9 DEF UsedApart
  <2> QED
    BY <2>1, <2>2 DEF UsedApart, Page
<1>19. TouchAtSeams'
  <2> SUFFICES ASSUME NEW j \in Kinds, NEW t \in free'[j], NEW u \in free'[j], End(t) = u.base
               PROVE  u.base \in Seams
    BY <1>1, MapUnchanged DEF TouchAtSeams
  <2>1. CASE t \in free[j] /\ u \in free[j]
    BY <1>1, <2>1 DEF TouchAtSeams
  <2>2. CASE j = k /\ t = new /\ u \in free[j] /\ u.base # p + n
    BY <1>1, <1>6, <1>7, <2>2 DEF TouchAtSeams, segs
  <2>3. CASE j = k /\ u = new /\ t \in free[j] /\ End(t) # p
    <3>1. PICK s \in segs : s.base = lo /\ End(s) = p
      BY <1>6, <1>7, <2>3
    <3> QED
      BY <1>1, <1>7, <2>3, <3>1 DEF TouchAtSeams, segs
  <2>4. CASE t = new /\ u = new
    BY <1>2, <1>3, <1>6, <1>7, <2>4
  <2> QED
    BY <1>8, <2>1, <2>2, <2>3, <2>4
<1>20. AllAvailable'
  <2>1. Available(new)
    <3>1. lo >= KernelEnd /\ lo >= InitrdEnd
      BY <1>1, <1>3, <1>6 DEF AllAvailable, Available, segs
    <3>2. ASSUME NEW a \in lo..(hi - 1) PROVE InRegion(a)
      <4>1. CASE a < p
        <5>1. PICK s \in segs : s.base = lo /\ End(s) = p
          BY <1>3, <1>6, <4>1
        <5>2. a \in s.base..(End(s) - 1)
          BY <1>3, <4>1, <5>1
        <5> QED
          BY <1>1, <5>2 DEF AllAvailable, Available, segs
      <4>2. CASE p <= a /\ a < p + n
        <5>1. a \in p..((p + n) - 1)
          BY <1>2, <1>3, <4>2
        <5> QED
          BY <1>3, <5>1 DEF Available
      <4>3. CASE p + n <= a
        <5>1. PICK s \in segs : s.base = p + n /\ End(s) = hi
          BY <1>2, <1>3, <1>6, <4>3
        <5>2. a \in s.base..(End(s) - 1)
          BY <1>2, <1>3, <4>3, <5>1
        <5> QED
          BY <1>1, <5>2 DEF AllAvailable, Available, segs
      <4> QED
        BY <1>2, <1>3, <4>1, <4>2, <4>3
    <3> QED
      BY <1>7, <3>1, <3>2 DEF Available
  <2>2. \A j \in Kinds : \A t \in free'[j] : Available(t)
    BY <1>1, <1>8, <2>1 DEF AllAvailable
  <2>3. \A j \in Kinds : \A q \in used'[j] : Available(Page(j, q)) /\ Multiple(q, PageSize(j))
    BY <1>1, <1>9 DEF AllAvailable
  <2>4. \A j, q : Available(Page(j, q))' <=> Available(Page(j, q))
    BY <1>1 DEF Available, InRegion, Page
  <2> QED
    BY <1>1, <2>2, <2>3, <2>4, MapUnchanged DEF AllAvailable
<1>21. AllKnown'
  <2> SUFFICES ASSUME NEW a \in Int, Known(a) PROVE Known(a)'
    <3>1. \A sp \in Registered : \A a \in sp.base..(End(sp) - 1) : a \in Int /\ Known(a)
      BY <1>0, <1>1 DEF AllKnown
    <3> QED
      BY <1>0, <1>1, <3>1, MapUnchanged DEF AllKnown
  <2>1. new \in free'[k]
    BY <1>1, <1>5, <1>6 DEF new
  <2>2. CASE lo <= a /\ a < hi
    BY <1>7, <2>1, <2>2 DEF Known
  <2>3. CASE ~(lo <= a /\ a < hi)
    <3>1. PICK j \in Kinds : \/ \E s \in free[j] : s.base <= a /\ a < End(s)
                            \/ \E q \in used[j] : q <= a /\ a < q + PageSize(j)
      BY DEF Known
    <3>2. CASE \E s \in free[j] : s.base <= a /\ a < End(s)
      <4>1. PICK s \in free[j] : s.base <= a /\ a < End(s)
        BY <3>2
      <4>2. j = k => s.base # p + n /\ End(s) # p
        <5> SUFFICES ASSUME j = k, s.base = p + n \/ End(s) = p PROVE FALSE
          OBVIOUS
        <5>1. s \in segs
          BY DEF segs
        <5>2. CASE s.base = p + n
          <6>1. PICK u \in segs : u.base = p + n /\ End(u) = hi
            BY <1>6, <5>1, <5>2
          <6>2. u = s
            BY <1>4, <1>10, <5>1, <5>2, <6>1 DEF Apart, segs
          <6> QED
            BY <1>2, <1>3, <1>6, <2>3, <4>1, <5>2, <6>1, <6>2
        <5>3. CASE End(s) = p
          <6>1. PICK u \in segs : u.base = lo /\ End(u) = p
            BY <1>6, <5>1, <5>3
          <6>2. u = s
            BY <1>4, <1>10, <5>1, <5>3, <6>1 DEF Apart, segs
          <6> QED
            BY <1>2, <1>3, <1>6, <2>3, <4>1, <5>3, <6>1, <6>2
        <5> QED
          BY <5>2, <5>3
      <4>3. s \in free'[j]
        BY <1>1, <1>5, <1>6, <4>2 DEF segs
      <4> QED
        BY <4>1, <4>3 DEF Known
    <3>3. CASE \E q \in used[j] : q <= a /\ a < q + PageSize(j)
      <4>1. PICK q \in used[j] : q <= a /\ a < q + PageSize(j)
        BY <3>3
      <4>2. ~(j = k /\ q = p)
        BY <1>2, <1>3, <1>6, <2>3, <4>1 DEF n
      <4>3. q \in used'[j]
        BY <1>1, <1>5, <4>2
      <4> QED
        BY <4>1, <4>3 DEF Known
    <3> QED
      BY <3>1, <3>2, <3>3
  <2> QED
    BY <2>2, <2>3
<1> QED
  BY <1>13, <1>14, <1>15, <1>17, <1>18, <1>19, <1>20, <1>21 DEF ArenaInv

LEMMA InitArenaInv ==
    ASSUME Init
    PROVE  ArenaInv
<1>1. /\ map \in MemoryMaps /\ todo = map
      /\ map \in Seq([base: Nat, length: Nat, available: BOOLEAN])
      /\ \A k \in Kinds : free[k] = {} /\ used[k] = {}
  BY MapAssumption DEF Init
<1>2. Len(map) \in Nat
  BY <1>1
<1>3. ArenaTypeOK
  BY <1>1 DEF Init, ArenaTypeOK
<1>4. \A k \in Kinds : PiecesTo(k, Len(map) - Len(todo)) = {}
  <2>1. 1..(Len(map) - Len(todo)) = {}
    BY <1>1, <1>2
  <2> QED
    BY <2>1 DEF PiecesTo
<1>5. Parsing
  <2>1. \A j \in 1..Len(todo) : Len(map) - Len(todo) + j = j
    BY <1>1, <1>2
  <2> QED
    <3>1. \A j \in 1..Len(todo) : todo[j] = map[Len(map) - Len(todo) + j]
      BY <1>1, <2>1
    <3>2. Len(todo) <= Len(map)
      BY <1>1, <1>2
    <3> QED
      BY <1>1, <1>4, <3>1, <3>2, Zenon DEF Parsing
<1>6. WholePages /\ FreeApart /\ UsedApart /\ TouchAtSeams /\ AllAvailable
  BY <1>1 DEF WholePages, FreeApart, UsedApart, TouchAtSeams, AllAvailable
<1>7. AllKnown
  <2>1. todo = << >> => Registered = {}
    BY <1>1 DEF Registered
  <2> QED
    BY <2>1 DEF AllKnown
<1> QED
  BY <1>3, <1>5, <1>6, <1>7 DEF ArenaInv

LEMMA NextArenaInv ==
    ASSUME ArenaInv, [Next]_vars
    PROVE  ArenaInv'
<1>1. CASE ParseEntry
  BY <1>1, ParseEntryStep
<1>2. CASE \E k \in Kinds : Alloc(k)
  BY <1>2, AllocStep
<1>3. CASE \E k \in Kinds : \E p \in used[k] : Free(k, p)
  BY <1>3, FreeStep
<1>4. CASE UNCHANGED vars
  <2>1. map' = map /\ todo' = todo /\ free' = free /\ used' = used
    BY <1>4 DEF vars
  <2>a. \A k : PiecesTo(k, Len(map) - Len(todo))' = PiecesTo(k, Len(map) - Len(todo))
    BY <2>1 DEF PiecesTo
  <2>b. Parsing'
    BY <2>1, <2>a, MapUnchanged DEF ArenaInv, Parsing
  <2>2. ArenaTypeOK' /\ Parsing'
    BY <2>1, <2>b DEF ArenaInv, ArenaTypeOK
  <2>3. Bordered => /\ WholePages' /\ FreeApart' /\ UsedApart' /\ TouchAtSeams'
                    /\ AllAvailable' /\ AllKnown'
    BY <2>1, MapUnchanged, Zenon
       DEF ArenaInv, WholePages, FreeApart, UsedApart, TouchAtSeams,
           AllAvailable, Available, InRegion, Page, AllKnown, Known
  <2> QED
    BY <2>1, <2>2, <2>3, MapUnchanged DEF ArenaInv
<1> QED
  BY <1>1, <1>2, <1>3, <1>4 DEF Next

LEMMA ArenaInvariant == Spec => []ArenaInv
<1>1. Init => ArenaInv
  BY InitArenaInv
<1>2. ArenaInv /\ [Next]_vars => ArenaInv'
  BY NextArenaInv
<1> QED
  BY <1>1, <1>2, PTL DEF Spec

LEMMA ExtentCases ==
    ASSUME NEW s \in Extents
    PROVE  \E k \in Kinds : s \in free[k] \/ \E p \in used[k] : s = Page(k, p)
  BY DEF Extents, Page

LEMMA DisjointFromInv ==
    ASSUME ArenaInv
    PROVE  PagesDisjoint
<1> SUFFICES ASSUME Bordered
             PROVE  /\ \A s, t \in Extents : s = t \/ Apart(s, t)
                    /\ \A k \in Kinds : \A p \in used[k] :
                         \A j \in Kinds : \A s \in free[j] : s.base # p
  BY DEF PagesDisjoint
<1>1. FreeApart /\ UsedApart /\ WholePages /\ ArenaTypeOK
  BY DEF ArenaInv
<1>2. ASSUME NEW s \in Extents, NEW t \in Extents PROVE s = t \/ Apart(s, t)
  <2>1. PICK j \in Kinds : s \in free[j] \/ \E p \in used[j] : s = Page(j, p)
    BY ExtentCases
  <2>2. PICK k \in Kinds : t \in free[k] \/ \E p \in used[k] : t = Page(k, p)
    BY ExtentCases
  <2>3. CASE s \in free[j] /\ t \in free[k]
    BY <1>1, <2>3 DEF FreeApart
  <2>4. CASE s \in free[j] /\ \E p \in used[k] : t = Page(k, p)
    BY <1>1, <2>4 DEF UsedApart, Apart
  <2>5. CASE t \in free[k] /\ \E p \in used[j] : s = Page(j, p)
    BY <1>1, <2>5 DEF UsedApart
  <2>6. CASE (\E p \in used[j] : s = Page(j, p)) /\ (\E p \in used[k] : t = Page(k, p))
    BY <1>1, <2>6 DEF UsedApart
  <2> QED
    BY <2>1, <2>2, <2>3, <2>4, <2>5, <2>6
<1>3. ASSUME NEW k \in Kinds, NEW p \in used[k], NEW j \in Kinds, NEW s \in free[j]
      PROVE  s.base # p
  <2>1. Apart(Page(k, p), s) /\ s.size > 0 /\ s \in Segments /\ p \in Nat
    BY <1>1 DEF UsedApart, WholePages, ArenaTypeOK
  <2>2. PageSize(k) \in Nat /\ PageSize(k) > 0
    BY PageSizes
  <2>3. Page(k, p).base = p /\ End(Page(k, p)) = p + PageSize(k)
    BY SegFields DEF Page
  <2> QED
    BY <2>1, <2>2, <2>3 DEF Apart, Segments, End
<1> QED
  BY <1>2, <1>3

LEMMA NothingLostFromInv ==
    ASSUME ArenaInv
    PROVE  NoMemoryLost
<1> SUFFICES ASSUME todo = << >>, Bordered
             PROVE  /\ \A sp \in Registered : \A a \in sp.base..(End(sp) - 1) :
                         \E s \in Extents : s.base <= a /\ a < End(s)
                    /\ \A k \in Kinds : free[k] # {} => Front(free[k]).size >= PageSize(k)
                    /\ \A k \in Kinds : \A s, t \in free[k] : End(s) = t.base => t.base \in Seams
  BY DEF NoMemoryLost
<1>1. AllKnown /\ WholePages /\ TouchAtSeams /\ ArenaTypeOK
  BY DEF ArenaInv
<1>2. ASSUME NEW sp \in Registered, NEW a \in sp.base..(End(sp) - 1)
      PROVE  \E s \in Extents : s.base <= a /\ a < End(s)
  <2>1. Known(a)
    BY <1>1 DEF AllKnown
  <2>2. \A k \in Kinds : \A p \in used[k] : /\ Page(k, p).base = p
                                            /\ End(Page(k, p)) = p + PageSize(k)
    BY SegFields DEF Page
  <2> QED
    BY <2>1, <2>2 DEF Known, Extents, Page
<1>3. ASSUME NEW k \in Kinds, free[k] # {} PROVE Front(free[k]).size >= PageSize(k)
  <2>1. Front(free[k]) \in free[k] /\ free[k] \in SUBSET Segments
    BY <1>1, <1>3, FrontFacts DEF ArenaTypeOK
  <2>2. Front(free[k]).size \in Int /\ Front(free[k]).size > 0
        /\ Multiple(Front(free[k]).size, PageSize(k))
    BY <1>1, <2>1 DEF WholePages, Segments
  <2> QED
    BY <2>2, PageSizes, MultipleAtLeast
<1> QED
  BY <1>1, <1>2, <1>3 DEF TouchAtSeams

(* A span without a border: its first piece reaches past its region.       *)
LEMMA BorderlessReachesOut ==
    ASSUME ArenaInv, todo = << >>, ~Bordered
    PROVE  \E s \in Extents : \A i \in DOMAIN map :
             map[i].available /\ map[i].base <= s.base => End(s) > EntryEnd(map[i])
<1>0. map \in MemoryMaps /\ map \in Seq([base: Nat, length: Nat, available: BOOLEAN])
  BY MapAssumption DEF ArenaInv, ArenaTypeOK
<1>1. PICK i \in DOMAIN map : /\ ~Skipped(map[i])
                              /\ ~(LargeStart(SpanOf(map[i])) <= LargeEnd(SpanOf(map[i])))
  BY DEF Bordered, Registered
<1> DEFINE sp == SpanOf(map[i])
           s == Seg(sp.base, LargeStart(sp) - sp.base)
<1>2. /\ sp.base \in Nat /\ sp.size \in Nat /\ sp.size > 0
      /\ Multiple(sp.base, PageSmall) /\ Multiple(sp.size, PageSmall)
      /\ map[i].available /\ map[i].base \in Nat /\ EntryEnd(map[i]) \in Nat
      /\ map[i].base <= sp.base /\ End(sp) <= EntryEnd(map[i])
      /\ EntryEnd(map[i]) < End(sp) + PageSmall
      /\ End(sp) + PageLarge <= AddrMod
  BY <1>0, <1>1, SpanFacts
<1>b. ~(LargeStart(sp) <= LargeEnd(sp))
  BY <1>1
<1> HIDE DEF sp
<1>3. /\ LargeStart(sp) \in Nat /\ LargeEnd(sp) \in Nat /\ End(sp) \in Nat
      /\ Multiple(LargeStart(sp), PageLarge) /\ Multiple(LargeEnd(sp), PageLarge)
      /\ LargeStart(sp) < sp.base + PageLarge /\ End(sp) < LargeEnd(sp) + PageLarge
      /\ LargeStart(sp) > LargeEnd(sp)
  <2>1. /\ LargeStart(sp) \in Nat /\ LargeEnd(sp) \in Nat /\ End(sp) \in Nat
        /\ Multiple(LargeStart(sp), PageLarge) /\ Multiple(LargeEnd(sp), PageLarge)
        /\ LargeStart(sp) < sp.base + PageLarge /\ End(sp) < LargeEnd(sp) + PageLarge
    BY <1>2, BorderFacts, Zenon
  <2> QED
    BY <1>b, <2>1
<1>4. /\ PageSmall \in Nat \ {0} /\ PageLarge \in Nat \ {0} /\ AddrMod \in Nat
      /\ PageSmall \in Int /\ PageLarge \in Int
      /\ LargeStart(sp) \in Int /\ LargeEnd(sp) \in Int /\ End(sp) \in Int
      /\ sp.base \in Int /\ sp.size \in Int
  BY <1>2, <1>3, PageAssumption
<1>5. LargeStart(sp) >= LargeEnd(sp) + PageLarge
  <2>1. Multiple(LargeStart(sp) - LargeEnd(sp), PageLarge)
    BY <1>3, <1>4, MultipleSum
  <2>a. LargeStart(sp) - LargeEnd(sp) > 0 /\ LargeStart(sp) - LargeEnd(sp) \in Int
    BY <1>3, <1>4
  <2>2. LargeStart(sp) - LargeEnd(sp) >= PageLarge
    BY <1>4, <2>1, <2>a, MultipleAtLeast, Zenon
  <2> QED
    BY <1>3, <1>4, <2>2
<1>6. LargeStart(sp) >= End(sp) + PageSmall
  <2>1. Multiple(End(sp), PageSmall)
    BY <1>2, <1>4, MultipleSum, Zenon DEF End
  <2>2. Multiple(LargeStart(sp), PageSmall)
    BY <1>3, <1>4, PageSizes
  <2>3. Multiple(LargeStart(sp) - End(sp), PageSmall)
    BY <1>4, <2>1, <2>2, MultipleSum
  <2>a. LargeStart(sp) - End(sp) > 0 /\ LargeStart(sp) - End(sp) \in Int
    BY <1>3, <1>4, <1>5
  <2>4. LargeStart(sp) - End(sp) >= PageSmall
    BY <1>4, <2>3, <2>a, MultipleAtLeast, Zenon
  <2> QED
    BY <1>3, <1>4, <2>4
<1>7. /\ LargeStart(sp) > EntryEnd(map[i]) /\ sp.base < EntryEnd(map[i])
      /\ End(sp) = sp.base + sp.size
  <2>1. End(sp) = sp.base + sp.size
    BY DEF End
  <2>2. EntryEnd(map[i]) \in Nat /\ EntryEnd(map[i]) < End(sp) + PageSmall
    BY <1>2
  <2>3. LargeStart(sp) > EntryEnd(map[i])
    BY ONLY <1>4, <1>6, <2>2
  <2>4. sp.base < EntryEnd(map[i])
    BY ONLY <1>2, <1>4, <2>1
  <2> QED
    BY <2>1, <2>3, <2>4
<1>8. s.base = sp.base /\ End(s) = LargeStart(sp)
  <2>1. s.base = sp.base /\ End(s) = sp.base + (LargeStart(sp) - sp.base)
    BY SegFields
  <2> HIDE DEF s
  <2> QED
    BY <1>4, <2>1
<1>9. s \in Extents
  <2>0. sp.base < LargeStart(sp) /\ PageLarge <= AddrMod
    BY <1>2, <1>3, <1>4, <1>7
  <2> DEFINE d == LargeStart(sp) - sp.base
  <2>1. d \in 0..(AddrMod - 1) /\ sp.base # LargeStart(sp)
    BY <1>3, <1>4, <2>0
  <2>2. d % AddrMod = d
    <3> HIDE DEF d
    <3> QED
      BY <1>4, <2>1
  <2>3. s \in SmallSegs(sp)
    BY <2>1, <2>2 DEF SmallSegs, SpanSegs
  <2>4. Len(map) \in Nat /\ Len(todo) = 0 /\ i \in 1..(Len(map) - Len(todo))
    BY <1>0, LenProperties
  <2>5. s \in PiecesTo("small", Len(map) - Len(todo))
    BY <1>1, <2>3, <2>4 DEF PiecesTo, Piece, sp
  <2>6. "small" \in Kinds /\ s \in free["small"]
    BY <2>5 DEF ArenaInv, Parsing, Kinds
  <2> QED
    BY <2>6 DEF Extents
<1> HIDE DEF s
<1>10. ASSUME NEW j \in DOMAIN map, map[j].available, map[j].base <= s.base
       PROVE  End(s) > EntryEnd(map[j])
  <2>1. CASE j = i
    BY <1>7, <1>8, <2>1
  <2>2. CASE j # i
    <3>1. EntryEnd(map[i]) <= map[j].base \/ EntryEnd(map[j]) <= map[i].base
      BY <1>0, <1>2, <1>10, <2>2, RegionAssumption
    <3>2. map[j].base \in Nat /\ EntryEnd(map[j]) \in Nat
      <4>1. map[j] \in [base: Nat, length: Nat, available: BOOLEAN]
        BY <1>0, ElementOfSeq, LenProperties, Zenon
      <4> QED
        BY <4>1 DEF EntryEnd
    <3> QED
      BY <1>2, <1>3, <1>7, <1>8, <1>10, <3>1, <3>2
  <2> QED
    BY <2>1, <2>2
<1> QED
  BY <1>9, <1>10

LEMMA InsideFromInv ==
    ASSUME ArenaInv
    PROVE  InsideAvailableMemory
<1>1. ASSUME todo = << >>, Bordered, NEW s \in Extents PROVE Available(s)
  BY <1>1, ExtentCases DEF ArenaInv, AllAvailable
<1>2. CASE todo = << >> /\ Bordered
  BY <1>1, <1>2 DEF InsideAvailableMemory, Available, InRegion
<1>3. CASE todo = << >> /\ ~Bordered
  BY <1>3, BorderlessReachesOut DEF InsideAvailableMemory
<1> QED
  BY <1>2, <1>3 DEF InsideAvailableMemory
-----------------------------------------------------------------------------
(* For every memory map, page size and sequence of page_alloc and          *)
(* page_free: no memory is handed out twice, although small and large      *)
(* pages come from two arenas cut out of the same spans.                   *)
THEOREM NoMemoryTwice == Spec => []PagesDisjoint
<1>1. ArenaInv => PagesDisjoint
  BY DisjointFromInv
<1> QED
  BY <1>1, ArenaInvariant, PTL

(* ... and none is lost: alloc's look at the first segment is enough, and  *)
(* free leaves no two segments that could be one.                          *)
THEOREM AllMemoryKept == Spec => []NoMemoryLost
<1>1. ArenaInv => NoMemoryLost
  BY NothingLostFromInv
<1> QED
  BY <1>1, ArenaInvariant, PTL

(* Where every span has a border of a large page in it, the allocator owns *)
(* nothing but available memory; memory_add_span reaches out of its region *)
(* for any span that has none.                                             *)
THEOREM OwnsAvailableMemory == Spec => []InsideAvailableMemory
<1>1. ArenaInv => InsideAvailableMemory
  BY InsideFromInv
<1> QED
  BY <1>1, ArenaInvariant, PTL
-----------------------------------------------------------------------------
LEMMA HeldCases == \A s : s \in Held <=> \E k \in Kinds : \E p \in used[k] : s = Page(k, p)
  BY DEF Held, Page

LEMMA HeldCasesNext ==
    \A s : s \in Held' <=> \E k \in Kinds : \E p \in used'[k] : s = Page(k, p)
  BY DEF Held, Page

(* Pages in use are natural addresses, apart from one another.             *)
LEMMA UsedFacts ==
    ASSUME ArenaInv, Bordered
    PROVE  /\ used \in [Kinds -> SUBSET Nat]
           /\ \A j, k \in Kinds : \A p \in used[j], q \in used[k] :
                 (j = k /\ p = q) \/ Apart(Page(j, p), Page(k, q))
  BY Zenon DEF ArenaInv, ArenaTypeOK, UsedApart

(* The front segment is apart from the pages in use and has room for the   *)
(* page, so the page at its beginning is apart from them too.              *)
LEMMA NextIsClear ==
    ASSUME ArenaInv, NEW k \in Kinds, CanAlloc(free[k], PageSize(k)), NEW s \in Held
    PROVE  PageAllocator!Clear(Page(k, Front(free[k]).base), s)
<1> DEFINE f == Front(free[k])
<1>1. PICK j \in Kinds : \E p \in used[j] : s = Page(j, p)
  BY HeldCases, Zenon
<1>2. PICK p \in used[j] : s = Page(j, p)
  BY <1>1
<1>3. free[k] \in SUBSET Segments /\ free[k] # {} /\ f.size >= PageSize(k)
  BY DEF CanAlloc, ArenaInv, ArenaTypeOK
<1>4. f \in free[k] /\ f \in Segments
  BY <1>3, FrontFacts
<1>5. Bordered
  BY Zenon DEF ArenaInv, Parsing
<1>6. UsedApart
  BY <1>5, Zenon DEF ArenaInv
<1> HIDE DEF f
<1>7. Apart(Page(j, p), f)
  BY <1>4, <1>6 DEF UsedApart
<1>8. /\ f.base \in Nat /\ f.size \in Nat /\ PageSize(k) \in Nat
      /\ p \in Nat /\ PageSize(j) \in Nat
  BY <1>4, PageSizes DEF Segments, ArenaInv, ArenaTypeOK
<1>9. /\ Page(k, f.base).base = f.base /\ Page(k, f.base).size = PageSize(k)
      /\ Page(j, p).base = p /\ Page(j, p).size = PageSize(j)
  BY <1>8, SegFields DEF Page
<1> QED
  BY <1>2, <1>3, <1>7, <1>8, <1>9 DEF Apart, End, f, PageAllocator!Clear

LEMMA NextPageClear == ArenaInv => NextPageIsClear
  BY NextIsClear DEF NextPageIsClear, Page

(* What alloc adds to the memory in use is that page.                      *)
LEMMA AllocTakes ==
    ASSUME ArenaInv, ArenaInv', NEW k \in Kinds, Alloc(k)
    PROVE  PageAllocator!Take
<1> DEFINE a == Front(free[k]).base
<1>1. used' = [used EXCEPT ![k] = @ \union {a}]
  BY DEF Alloc
<1>2. used \in [Kinds -> SUBSET Nat] /\ used' \in [Kinds -> SUBSET Nat]
  BY DEF ArenaInv, ArenaTypeOK
<1>3. \A s \in Held : PageAllocator!Clear(Page(k, a), s)
  BY NextIsClear DEF Alloc
<1> HIDE DEF a
<1>4. /\ used'[k] = used[k] \union {a}
      /\ \A j \in Kinds : j # k => used'[j] = used[j]
  BY <1>1, <1>2
<1>5. Held' = Held \union {Page(k, a)}
  <2>1. \A s : s \in Held' <=> s \in Held \/ s = Page(k, a)
    BY <1>4, HeldCases, HeldCasesNext, Zenon
  <2> QED
    BY <2>1, Zenon
<1>6. a \in Nat
  BY <1>2, <1>4
<1>7. /\ Page(k, a).base \in Nat
      /\ Page(k, a).size \in Nat \ {0}
  BY <1>6, PageSizes, SegFields DEF Page
<1>8. Page(k, a) \in Held'
  BY <1>5
<1> QED
  BY <1>3, <1>5, <1>7, <1>8, Zenon DEF PageAllocator!Take

(* The page free gives back is no longer held, and every other still is:   *)
(* no other page in use, of either size, is the same memory.               *)
LEMMA FreeGivesBack ==
    ASSUME ArenaInv, NEW k \in Kinds, NEW p \in used[k], Free(k, p)
    PROVE  PageAllocator!GiveBack
<1>1. used' = [used EXCEPT ![k] = @ \ {p}] /\ used \in [Kinds -> SUBSET Nat]
  BY DEF Free, ArenaInv, ArenaTypeOK
<1>2. /\ used'[k] = used[k] \ {p}
      /\ \A j \in Kinds : j # k => used'[j] = used[j]
  BY <1>1
<1>3. Bordered
  BY Zenon DEF ArenaInv, Parsing
<1>4. ASSUME NEW j \in Kinds, NEW q \in used'[j] PROVE q \in used[j] /\ Page(j, q) # Page(k, p)
  <2>1. q \in used[j] /\ ~(j = k /\ q = p)
    BY <1>2
  <2>2. Apart(Page(j, q), Page(k, p))
    BY <1>3, <2>1, UsedFacts, Zenon
  <2>3. /\ Page(k, p).base = p /\ End(Page(k, p)) = p + PageSize(k)
        /\ p \in Nat /\ PageSize(k) \in Nat /\ PageSize(k) > 0
    BY <1>1, SegFields, PageSizes DEF Page
  <2>4. ~Apart(Page(k, p), Page(k, p))
    BY ONLY <2>3 DEF Apart
  <2> QED
    BY <2>1, <2>2, <2>4
<1>5. ASSUME NEW j \in Kinds, NEW q \in used[j], Page(j, q) # Page(k, p) PROVE q \in used'[j]
  BY <1>2, <1>5
<1>6. Held' = Held \ {Page(k, p)}
  <2>1. \A s : s \in Held' <=> s \in Held /\ s # Page(k, p)
    BY <1>4, <1>5, HeldCases, HeldCasesNext, Zenon
  <2> QED
    BY <2>1, Zenon
<1>7. Page(k, p) \in Held
  BY HeldCases, Zenon
<1> QED
  BY <1>6, <1>7, Zenon DEF PageAllocator!GiveBack

(* The page allocator, with its two arenas that split and coalesce, is an  *)
(* abstract allocator: every page_alloc that does not fail takes memory    *)
(* clear of all pages in use, every page_free gives back one of them, and  *)
(* nothing else changes them, for every memory map and both page sizes.    *)
THEOREM ArenaImplementsAllocator == Spec => ImplementsAllocator
<1>1. Init => PageAllocator!AllocatorInit
  BY DEF Init, PageAllocator!AllocatorInit, Held, Kinds
<1>2. ArenaInv /\ ArenaInv' /\ [Next]_vars => [PageAllocator!AllocatorNext]_Held
  <2> SUFFICES ASSUME ArenaInv, ArenaInv', [Next]_vars
               PROVE  PageAllocator!Take \/ PageAllocator!GiveBack \/ UNCHANGED Held
    BY DEF PageAllocator!AllocatorNext
  <2>1. CASE ParseEntry \/ UNCHANGED vars
    BY <2>1 DEF ParseEntry, vars, Held
  <2>2. CASE \E k \in Kinds : Alloc(k)
    BY <2>2, AllocTakes, Zenon
  <2>3. CASE \E k \in Kinds : \E p \in used[k] : Free(k, p)
    BY <2>3, FreeGivesBack, Zenon
  <2> QED
    BY <2>1, <2>2, <2>3 DEF Next
<1> QED
  BY <1>1, <1>2, NextPageClear, ArenaInvariant, PTL
     DEF Spec, ImplementsAllocator, PageAllocator!AllocatorSpec
=============================================================================
