--------------------------- MODULE Malloc_proofs ---------------------------
(***************************************************************************)
(* For every block, page and segment size, malloc hands out no byte twice  *)
(* and loses no block.                                                     *)
(***************************************************************************)
EXTENDS Malloc, WellFoundedInduction, SequenceTheorems, TLAPS

Page == [size : Nat, used : Int, capacity : Nat, free : Seq(Nat)]

Heap == [pages : [PageIds -> Page], queue : Seq(1..NSegments),
         class : [0..(NumSizeClasses - 1) -> PageIds \union {NoPage}],
         segments : 0..NSegments]

Block(p, page, i) == PageObj(p) + (i - 1) * page.size

IsFree(page, x) == \E k \in 1..Len(page.free) : page.free[k] = x

(* A page is unclaimed or has as many blocks as there is room for; its     *)
(* free list has blocks of its own, each once.                             *)
PageInv(p, page) ==
    /\ page \in Page
    /\ page.size = 0 => page = Unclaimed
    /\ page.size # 0 => /\ page.size <= SmallMax - MinObj
                        /\ page.capacity = PageBytes(p) \div page.size
    /\ page.used + Len(page.free) = page.capacity
    /\ IsInjective(page.free)
    /\ \A k \in 1..Len(page.free) :
          \E i \in 1..page.capacity : page.free[k] = Block(p, page, i)

(* Segments not yet asked for have no claimed page, those of the queue     *)
(* have been asked for, and a size class has a page of its size.           *)
HeapInv(h) ==
    /\ h \in Heap
    /\ \A p \in PageIds : PageInv(p, h.pages[p])
    /\ \A p \in PageIds : p[1] > h.segments => h.pages[p].size = 0
    /\ \A k \in 1..Len(h.queue) : h.queue[k] \in 1..h.segments
    /\ \A c \in 0..(NumSizeClasses - 1) :
          h.class[c] # NoPage => /\ h.pages[h.class[c]].size = c * MinObj
                                 /\ h.pages[h.class[c]].size # 0

(* An object in use is a block of its page that is not free and is large   *)
(* enough for it.                                                          *)
Placed(pages, o) ==
    LET p == PageOf(o[1])
    IN  /\ o \in Nat \X Nat
        /\ p \in PageIds
        /\ \E i \in 1..pages[p].capacity : o[1] = Block(p, pages[p], i)
        /\ ~IsFree(pages[p], o[1])
        /\ o[2] >= 1 /\ o[2] <= pages[p].size

InUse(lv, x) == \E o \in lv : o[1] = x

LiveInv(pages, lv) ==
    /\ \A o \in lv : Placed(pages, o)
    /\ \A o, q \in lv : o[1] = q[1] => o = q
    /\ \A p \in PageIds : \A i \in 1..pages[p].capacity :
          \/ IsFree(pages[p], Block(p, pages[p], i))
          \/ InUse(lv, Block(p, pages[p], i))

(* The inductive invariant.                                                *)
MallocInv ==
    /\ HeapInv(heap)
    /\ LiveInv(heap.pages, live)
    /\ wild \in Nat /\ (wild # 0 => wild > SmallMax - MinObj)
-----------------------------------------------------------------------------
(* A set of naturals that is not empty has a least element.                *)
LEMMA LeastNatural ==
    ASSUME NEW T, T \subseteq Nat, T # {}
    PROVE  \E x \in T : \A y \in T : x <= y
<1>1. PICK x \in T : \A y \in T : <<y, x>> \notin OpToRel(<, Nat)
  BY NatLessThanWellFounded, WFMin, Zenon
<1>2. \A y \in T : ~(y < x)
  BY <1>1, Zenon DEF OpToRel
<1> QED
  BY <1>2

(* Division and multiplication, in the forms used below.                   *)
LEMMA DivMod ==
    ASSUME NEW v \in Nat, NEW a \in Nat \ {0}
    PROVE  /\ v % a \in 0..(a - 1) /\ v \div a \in Nat
           /\ v = (v \div a) * a + (v % a)
<1>1. v = (v \div a) * a + (v % a)
  BY SMT
<1>2. v % a \in 0..(a - 1)
  BY SMT
<1>3. v \div a \in Nat
  BY SMT
<1> QED
  BY <1>1, <1>2, <1>3

LEMMA TimesLess ==
    ASSUME NEW a \in Nat, NEW b \in Nat, NEW n \in Nat, a < b
    PROVE  a * n \in Nat /\ b * n \in Nat /\ a * n + n <= b * n
<1>1. a * n \in Nat /\ b * n \in Nat
  OBVIOUS
<1>2. (b - a) * n = b * n - a * n /\ (b - a - 1) * n \in Nat
  OBVIOUS
<1>3. (b - a - 1) * n = (b - a) * n - n
  OBVIOUS
<1> QED
  BY <1>1, <1>2, <1>3

LEMMA DivUnique ==
    ASSUME NEW v \in Nat, NEW a \in Nat \ {0}, NEW q \in Nat,
           q * a <= v, v < q * a + a
    PROVE  v \div a = q /\ v % a = v - q * a
<1> DEFINE d == v \div a
           r == v % a
<1>1. d \in Nat /\ r \in 0..(a - 1) /\ v = d * a + r
  BY DivMod, Zenon
<1> HIDE DEF d, r
<1>2. ~(d < q)
  BY <1>1, TimesLess
<1>3. ~(q < d)
  BY <1>1, TimesLess
<1>4. d = q
  BY <1>1, <1>2, <1>3
<1> QED
  BY <1>1, <1>4 DEF d, r

(* Where the blocks of a page are: inside it, after the metadata.          *)
PageStart(p) == p[1] * SegmentSize + p[2] * PageSize

LEMMA Geometry ==
    /\ MinObj \in Nat \ {0} /\ SmallMax \in Nat \ {0} /\ PageSize \in Nat \ {0}
    /\ NPages \in Nat \ {0} /\ MetaSize \in Nat \ {0} /\ NSegments \in Nat
    /\ MetaSize + SmallMax <= PageSize
    /\ SegmentSize \in Nat \ {0} /\ PageSize <= SegmentSize
<1>1. /\ MinObj \in Nat \ {0} /\ SmallMax \in Nat \ {0} /\ PageSize \in Nat \ {0}
      /\ NPages \in Nat \ {0} /\ MetaSize \in Nat \ {0} /\ NSegments \in Nat
      /\ MetaSize + SmallMax <= PageSize
  BY SizesAssumption
<1>2. NPages * PageSize \in Nat /\ 0 * PageSize + PageSize <= NPages * PageSize
  BY <1>1, TimesLess
<1> QED
  BY <1>1, <1>2 DEF SegmentSize

LEMMA PagePlace ==
    ASSUME NEW p \in PageIds
    PROVE  /\ p[1] \in 1..NSegments /\ p[2] \in 0..(NPages - 1) /\ p = <<p[1], p[2]>>
           /\ PageStart(p) \in Nat /\ PageObj(p) \in Nat /\ PageBytes(p) \in Nat
           /\ SmallMax <= PageBytes(p)
           /\ PageStart(p) <= PageObj(p)
           /\ PageObj(p) + PageBytes(p) = PageStart(p) + PageSize
           /\ p[1] * SegmentSize \in Nat
           /\ p[1] * SegmentSize + MetaSize <= PageObj(p)
           /\ PageStart(p) + PageSize <= p[1] * SegmentSize + SegmentSize
<1>1. p[1] \in 1..NSegments /\ p[2] \in 0..(NPages - 1) /\ p = <<p[1], p[2]>>
  BY DEF PageIds
<1>2. p[1] \in Nat /\ p[2] \in Nat /\ p[2] < NPages
  BY <1>1, Geometry
<1>3. /\ p[2] * PageSize \in Nat
      /\ p[2] * PageSize + PageSize <= SegmentSize
  BY <1>2, Geometry, TimesLess DEF SegmentSize
<1>4. p[1] * SegmentSize \in Nat
  BY <1>2, Geometry
<1>5. p[2] = 0 => p[2] * PageSize = 0
  BY Geometry
<1>6. p[2] # 0 => PageSize <= p[2] * PageSize
  <2> SUFFICES ASSUME p[2] # 0 PROVE PageSize <= p[2] * PageSize
    OBVIOUS
  <2>1. 0 * PageSize + PageSize <= p[2] * PageSize
    BY <1>2, Geometry, TimesLess
  <2> QED
    BY <2>1, Geometry
<1>7. /\ PageStart(p) \in Nat /\ PageObj(p) \in Nat /\ PageBytes(p) \in Nat
      /\ SmallMax <= PageBytes(p)
      /\ PageStart(p) <= PageObj(p)
      /\ PageObj(p) + PageBytes(p) = PageStart(p) + PageSize
      /\ p[1] * SegmentSize + MetaSize <= PageObj(p)
      /\ PageStart(p) + PageSize <= p[1] * SegmentSize + SegmentSize
  <2> DEFINE x == p[1] * SegmentSize
             y == p[2] * PageSize
  <2>1. x \in Nat /\ y \in Nat /\ y + PageSize <= SegmentSize /\ (p[2] = 0 => y = 0)
        /\ (p[2] # 0 => PageSize <= y)
    BY <1>3, <1>4, <1>5, <1>6
  <2>2. PageStart(p) = x + y /\ PageObj(p) = x + (IF p[2] = 0 THEN MetaSize ELSE y)
    BY DEF PageStart, PageObj
  <2> HIDE DEF x, y
  <2> QED
    BY <2>1, <2>2, <1>2, Geometry DEF PageBytes, x
<1> QED
  BY <1>1, <1>4, <1>7

(* malloc_obj_to_page finds the page of any address inside one.            *)
LEMMA PageFound ==
    ASSUME NEW p \in PageIds, NEW x \in Nat,
           PageStart(p) <= x, x < PageStart(p) + PageSize
    PROVE  PageOf(x) = p /\ x % SegmentSize = x - p[1] * SegmentSize
<1>1. p[1] \in Nat /\ p[2] \in Nat /\ p = <<p[1], p[2]>>
  BY PagePlace, Geometry
<1>2. p[1] * SegmentSize \in Nat /\ p[2] * PageSize \in Nat
  BY <1>1, Geometry
<1>3. p[1] * SegmentSize <= x /\ x < p[1] * SegmentSize + SegmentSize
  BY <1>2, PagePlace, Geometry DEF PageStart
<1>4. x \div SegmentSize = p[1] /\ x % SegmentSize = x - p[1] * SegmentSize
  BY <1>1, <1>3, Geometry, DivUnique
<1> DEFINE y == x - p[1] * SegmentSize
<1>5. y \in Nat /\ p[2] * PageSize <= y /\ y < p[2] * PageSize + PageSize
  BY <1>2, <1>3, Geometry DEF PageStart
<1> HIDE DEF y
<1>6. y \div PageSize = p[2]
  BY <1>1, <1>5, Geometry, DivUnique
<1> QED
  BY <1>1, <1>4, <1>6 DEF PageOf, y

(* The blocks of a page are inside it, their address leads back to it, and *)
(* they do not overlap.                                                    *)
LEMMA BlockPlace ==
    ASSUME NEW p \in PageIds, NEW page, PageInv(p, page),
           NEW i \in 1..page.capacity
    PROVE  /\ Block(p, page, i) \in Nat
           /\ page.size \in Nat \ {0}
           /\ PageObj(p) <= Block(p, page, i)
           /\ Block(p, page, i) + page.size <= PageStart(p) + PageSize
           /\ PageOf(Block(p, page, i)) = p
           /\ Block(p, page, i) % SegmentSize
                = Block(p, page, i) - p[1] * SegmentSize
<1>1. page.size \in Nat /\ page.capacity \in Nat
  BY DEF PageInv, Page
<1>2. page.size # 0
  <2>1. page = Unclaimed => page.capacity = 0
    BY DEF Unclaimed
  <2> QED
    BY <2>1, <1>1 DEF PageInv
<1> DEFINE s == page.size
           n == page.capacity
           b == PageBytes(p)
<1>3. s \in Nat \ {0} /\ n \in Nat /\ b \in Nat /\ n = b \div s
  BY <1>1, <1>2, PagePlace DEF PageInv
<1>4. i \in Nat /\ i - 1 \in Nat /\ i - 1 < n
  BY <1>1
<1> HIDE DEF s, n, b
<1>5. n * s \in Nat /\ n * s <= b
  BY <1>3, DivMod
<1>6. (i - 1) * s \in Nat /\ (i - 1) * s + s <= n * s
  BY <1>3, <1>4, TimesLess
<1> DEFINE x == PageObj(p) + (i - 1) * s
<1>7. /\ x \in Nat /\ PageObj(p) <= x /\ x + s <= PageStart(p) + PageSize
      /\ PageStart(p) <= x /\ x < PageStart(p) + PageSize
  BY <1>3, <1>5, <1>6, PagePlace, Geometry DEF b
<1> HIDE DEF x
<1>8. PageOf(x) = p /\ x % SegmentSize = x - p[1] * SegmentSize
  BY <1>7, PageFound
<1>9. x = Block(p, page, i)
  BY DEF x, s, Block
<1> QED
  BY <1>3, <1>7, <1>8, <1>9 DEF s

LEMMA BlocksApart ==
    ASSUME NEW p \in PageIds, NEW page, PageInv(p, page),
           NEW i \in 1..page.capacity, NEW j \in 1..page.capacity, i < j
    PROVE  Block(p, page, i) + page.size <= Block(p, page, j)
<1>1. page.size \in Nat /\ page.capacity \in Nat /\ PageObj(p) \in Nat
  BY PagePlace DEF PageInv, Page
<1>2. i - 1 \in Nat /\ j - 1 \in Nat /\ i - 1 < j - 1
  BY <1>1
<1>3. /\ (i - 1) * page.size \in Nat /\ (j - 1) * page.size \in Nat
      /\ (i - 1) * page.size + page.size <= (j - 1) * page.size
  BY <1>1, <1>2, TimesLess
<1> QED
  BY <1>1, <1>3 DEF Block

(* malloc_segment_claim_page: a claimed page has all its blocks free.      *)
LEMMA ClaimedPage ==
    ASSUME NEW p \in PageIds, NEW bs \in Nat \ {0}, bs <= SmallMax - MinObj
    PROVE  /\ PageInv(p, Claimed(p, bs))
           /\ Claimed(p, bs).size = bs
           /\ \A i \in 1..Claimed(p, bs).capacity :
                 IsFree(Claimed(p, bs), Block(p, Claimed(p, bs), i))
<1> DEFINE n == PageBytes(p) \div bs
           page == Claimed(p, bs)
<1>1. n \in Nat
  BY PagePlace, DivMod
<1>2. /\ page.size = bs /\ page.used = 0 /\ page.capacity = n
      /\ page.free = [i \in 1..n |-> PageObj(p) + (i - 1) * bs]
  BY DEF Claimed
<1>3. \A i \in 1..n : PageObj(p) + (i - 1) * bs \in Nat
  <2> TAKE i \in 1..n
  <2>1. i - 1 \in Nat
    BY <1>1
  <2>2. (i - 1) * bs \in Nat
    BY <2>1
  <2> QED
    BY <2>2, PagePlace
<1>4. page.free \in Seq(Nat) /\ Len(page.free) = n
  BY <1>1, <1>2, <1>3
<1>5. page \in Page
  BY <1>1, <1>2, <1>4 DEF Page, Claimed
<1>6. \A i \in 1..n : page.free[i] = Block(p, page, i)
  BY <1>2 DEF Block
<1> HIDE DEF page, n
<1>7. \A i, j \in 1..n : page.free[i] = page.free[j] => i = j
  <2> SUFFICES ASSUME NEW i \in 1..n, NEW j \in 1..n, page.free[i] = page.free[j]
               PROVE  i = j
    OBVIOUS
  <2>1. i - 1 \in Nat /\ j - 1 \in Nat /\ PageObj(p) \in Nat
    BY <1>1, PagePlace
  <2> DEFINE x == (i - 1) * bs
             y == (j - 1) * bs
  <2>2. page.free[i] = PageObj(p) + x /\ page.free[j] = PageObj(p) + y
    BY <1>2
  <2>3. x \in Nat /\ y \in Nat
    BY <2>1
  <2>4. i - 1 < j - 1 => x + bs <= y
    BY <2>1, TimesLess
  <2>5. j - 1 < i - 1 => y + bs <= x
    BY <2>1, TimesLess
  <2> HIDE DEF x, y
  <2>6. PageObj(p) + x = PageObj(p) + y
    BY <2>2, Zenon
  <2>7. x = y
    BY <2>1, <2>3, <2>6
  <2> QED
    BY <2>1, <2>3, <2>4, <2>5, <2>7
<1>8. IsInjective(page.free)
  BY <1>4, <1>7 DEF IsInjective
<1>9. PageInv(p, page)
  <2>1. page.used + Len(page.free) = page.capacity
    BY <1>1, <1>2, <1>4
  <2>2. page.size # 0 /\ page.size <= SmallMax - MinObj
    BY <1>2
  <2>3. page.capacity = PageBytes(p) \div page.size
    BY <1>2 DEF n
  <2>4. \A k \in 1..Len(page.free) :
           \E i \in 1..page.capacity : page.free[k] = Block(p, page, i)
    BY <1>2, <1>4, <1>6, Zenon
  <2> QED
    BY <1>5, <1>8, <2>1, <2>2, <2>3, <2>4 DEF PageInv
<1>10. \A i \in 1..page.capacity : IsFree(page, Block(p, page, i))
  BY <1>2, <1>4, <1>6, Zenon DEF IsFree
<1> QED
  BY <1>2, <1>9, <1>10 DEF page

(* malloc_page_alloc_obj and the push of free, on one page.                *)
WithFree(page, f, u) == [page EXCEPT !.free = f, !.used = u]
Taken(page) == WithFree(page, Tail(page.free), page.used + 1)
Pushed(page, x) == WithFree(page, <<x>> \o page.free, page.used - 1)

LEMMA PageWithFree ==
    ASSUME NEW page \in Page, NEW f, NEW u
    PROVE  /\ WithFree(page, f, u).free = f
           /\ WithFree(page, f, u).used = u
           /\ WithFree(page, f, u).size = page.size
           /\ WithFree(page, f, u).capacity = page.capacity
           /\ f \in Seq(Nat) /\ u \in Int => WithFree(page, f, u) \in Page
  BY Zenon DEF WithFree, Page

LEMMA TakenPage ==
    ASSUME NEW p \in PageIds, NEW page, PageInv(p, page), page.free # << >>
    PROVE  /\ PageInv(p, Taken(page))
           /\ Taken(page).size = page.size /\ Taken(page).capacity = page.capacity
           /\ \E i \in 1..page.capacity : Head(page.free) = Block(p, page, i)
           /\ IsFree(page, Head(page.free))
           /\ ~IsFree(Taken(page), Head(page.free))
           /\ \A x : IsFree(Taken(page), x) => IsFree(page, x)
           /\ \A x : IsFree(page, x) => x = Head(page.free) \/ IsFree(Taken(page), x)
<1> DEFINE new == Taken(page)
           f == page.free
           g == new.free
<1>1. page \in Page /\ f \in Seq(Nat)
  BY DEF PageInv, Page
<1>2. /\ g = Tail(f) /\ new.used = page.used + 1
      /\ new.size = page.size /\ new.capacity = page.capacity
  BY <1>1, PageWithFree DEF Taken
<1>3. /\ Len(f) \in Nat /\ Len(f) >= 1 /\ Head(f) = f[1]
      /\ g \in Seq(Nat) /\ Len(g) = Len(f) - 1
      /\ \A k \in 1..Len(g) : g[k] = f[k + 1] /\ k + 1 \in 1..Len(f)
  BY <1>1, <1>2
<1>4. new \in Page
  <2>1. page.used + 1 \in Int /\ Tail(f) \in Seq(Nat)
    BY <1>1, <1>2, <1>3 DEF Page
  <2> QED
    BY <1>1, <2>1, PageWithFree, Zenon DEF Taken
<1>5. \A k, l \in 1..Len(f) : f[k] = f[l] => k = l
  BY <1>1 DEF PageInv, IsInjective
<1>6. \A k \in 1..Len(f) : \E i \in 1..page.capacity : f[k] = Block(p, page, i)
  BY DEF PageInv
<1>7. page.used \in Int /\ page.capacity \in Nat /\ page.used + Len(f) = page.capacity
  BY <1>1 DEF PageInv, Page
<1>8. page.size # 0
  <2>1. page.size = 0 => page = Unclaimed
    BY DEF PageInv
  <2>2. page = Unclaimed => page.free = << >>
    BY DEF Unclaimed
  <2> QED
    BY <2>1, <2>2
<1>9. page.size <= SmallMax - MinObj /\ page.capacity = PageBytes(p) \div page.size
  BY <1>8 DEF PageInv
<1> HIDE DEF new, f, g
<1>10. \A k, l \in 1..Len(g) : g[k] = g[l] => k = l
  <2> SUFFICES ASSUME NEW k \in 1..Len(g), NEW l \in 1..Len(g), g[k] = g[l]
               PROVE  k = l
    OBVIOUS
  <2>1. f[k + 1] = f[l + 1] /\ k + 1 \in 1..Len(f) /\ l + 1 \in 1..Len(f)
    BY <1>3
  <2>2. k + 1 = l + 1
    BY <2>1, <1>5
  <2> QED
    BY <2>2, <1>3
<1>11. \A k \in 1..Len(g) : \E i \in 1..new.capacity : g[k] = Block(p, new, i)
  <2> TAKE k \in 1..Len(g)
  <2>1. PICK i \in 1..page.capacity : f[k + 1] = Block(p, page, i)
    BY <1>3, <1>6
  <2> QED
    BY <2>1, <1>2, <1>3 DEF Block
<1>12. PageInv(p, new)
  <2>1. IsInjective(new.free)
    <3>1. DOMAIN g = 1..Len(g)
      BY <1>3
    <3>2. IsInjective(g)
      BY <1>10, <3>1, Zenon DEF IsInjective
    <3> QED
      BY <3>2, Zenon DEF g
  <2>2. new.used + Len(new.free) = new.capacity
    BY <1>2, <1>3, <1>7 DEF g
  <2>3. /\ new.size # 0 /\ new.size <= SmallMax - MinObj
        /\ new.capacity = PageBytes(p) \div new.size
    BY <1>2, <1>8, <1>9
  <2>4. \A k \in 1..Len(new.free) :
           \E i \in 1..new.capacity : new.free[k] = Block(p, new, i)
    BY <1>11 DEF g
  <2> QED
    BY <1>4, <2>1, <2>2, <2>3, <2>4 DEF PageInv
<1>13. \E i \in 1..page.capacity : Head(f) = Block(p, page, i)
  BY <1>3, <1>6
<1>14. \E k \in 1..Len(f) : f[k] = Head(f)
  BY <1>3
<1>15. ~ \E k \in 1..Len(g) : g[k] = Head(f)
  <2> SUFFICES ASSUME NEW k \in 1..Len(g), g[k] = Head(f) PROVE FALSE
    OBVIOUS
  <2>1. f[k + 1] = f[1] /\ k + 1 \in 1..Len(f) /\ 1 \in 1..Len(f)
    BY <1>3
  <2>2. k + 1 = 1
    BY <2>1, <1>5
  <2> QED
    BY <2>2, <1>3
<1>16. \A x : (\E k \in 1..Len(g) : g[k] = x) => \E k \in 1..Len(f) : f[k] = x
  BY <1>3
<1>17. \A x : (\E k \in 1..Len(f) : f[k] = x)
               => x = Head(f) \/ \E k \in 1..Len(g) : g[k] = x
  <2>0. Head(f) = f[1]
    BY <1>3, Zenon
  <2> SUFFICES ASSUME NEW k \in 1..Len(f), k # 1
               PROVE  \E l \in 1..Len(g) : g[l] = f[k]
    BY <2>0, Zenon
  <2>1. k - 1 \in 1..Len(g) /\ (k - 1) + 1 = k
    BY <1>3
  <2>2. g[k - 1] = f[k]
    BY <2>1, <1>3
  <2> QED
    BY <2>1, <2>2
<1> QED
  BY <1>2, <1>12, <1>13, <1>14, <1>15, <1>16, <1>17 DEF IsFree, new, f, g

LEMMA PushedFree ==
    ASSUME NEW page \in Page, NEW x \in Nat
    PROVE  Pushed(page, x).free = <<x>> \o page.free
<1> DEFINE f == <<x>> \o page.free
<1> HIDE DEF f
<1>1. WithFree(page, f, page.used - 1).free = f
  BY PageWithFree
<1> QED
  BY <1>1 DEF Pushed, f

LEMMA PushedPage ==
    ASSUME NEW p \in PageIds, NEW page, PageInv(p, page),
           NEW i \in 1..page.capacity, ~IsFree(page, Block(p, page, i))
    PROVE  LET x == Block(p, page, i)
               new == Pushed(page, x)
           IN  /\ PageInv(p, new)
               /\ new.size = page.size /\ new.capacity = page.capacity
               /\ IsFree(new, x)
               /\ \A y : IsFree(page, y) => IsFree(new, y)
               /\ \A y : IsFree(new, y) => y = x \/ IsFree(page, y)
<1> DEFINE x == Block(p, page, i)
           new == Pushed(page, x)
           f == page.free
           g == new.free
<1>1. page \in Page /\ f \in Seq(Nat) /\ x \in Nat /\ page.size # 0
  BY BlockPlace, Zenon DEF PageInv, Page
<1>2. /\ new.used = page.used - 1
      /\ new.size = page.size /\ new.capacity = page.capacity
  BY <1>1, PageWithFree DEF Pushed
<1>3. ~ \E k \in 1..Len(f) : f[k] = x
  BY Zenon DEF IsFree
<1>4. \A k, l \in 1..Len(f) : f[k] = f[l] => k = l
  BY <1>1 DEF PageInv, IsInjective
<1>5. \A k \in 1..Len(f) : \E j \in 1..page.capacity : f[k] = Block(p, page, j)
  BY DEF PageInv
<1>6. page.used \in Int /\ page.capacity \in Nat /\ page.used + Len(f) = page.capacity
  BY <1>1 DEF PageInv, Page
<1>7. page.size <= SmallMax - MinObj /\ page.capacity = PageBytes(p) \div page.size
  BY <1>1 DEF PageInv
<1>8. x = Block(p, page, i)
  OBVIOUS
<1> HIDE DEF x
<1>9. /\ Len(f) \in Nat /\ g \in Seq(Nat) /\ Len(g) = Len(f) + 1 /\ g[1] = x
      /\ \A k \in 1..Len(f) : g[k + 1] = f[k]
  <2>1. g = <<x>> \o f
    BY <1>1, PushedFree
  <2> HIDE DEF new, f, g
  <2>2. Len(f) \in Nat /\ Len(<<x>>) = 1 /\ <<x>> \in Seq(Nat) /\ <<x>>[1] = x
    BY <1>1
  <2>3. g \in Seq(Nat) /\ Len(g) = Len(f) + 1
    BY <1>1, <2>1, <2>2
  <2>4. g[1] = x /\ \A k \in 1..Len(f) : g[k + 1] = f[k]
    BY <1>1, <2>1, <2>2
  <2> QED
    BY <2>2, <2>3, <2>4
<1>10. new \in Page
  <2>1. page.used - 1 \in Int /\ <<x>> \o f \in Seq(Nat)
    BY <1>1 DEF Page
  <2> QED
    BY <1>1, <2>1, PageWithFree, Zenon DEF Pushed
<1> HIDE DEF new, f, g
<1>11. \A k \in 1..Len(g) : k = 1 \/ (k - 1 \in 1..Len(f) /\ g[k] = f[k - 1])
  <2> SUFFICES ASSUME NEW k \in 1..Len(g), k # 1
               PROVE  k - 1 \in 1..Len(f) /\ g[k] = f[k - 1]
    OBVIOUS
  <2>1. k - 1 \in 1..Len(f) /\ (k - 1) + 1 = k
    BY <1>9
  <2>2. g[(k - 1) + 1] = f[k - 1]
    BY <2>1, <1>9
  <2> QED
    BY <2>1, <2>2
<1>12. \A k, l \in 1..Len(g) : g[k] = g[l] => k = l
  <2> SUFFICES ASSUME NEW k \in 1..Len(g), NEW l \in 1..Len(g), g[k] = g[l]
               PROVE  k = l
    OBVIOUS
  <2>1. k \in Int /\ l \in Int
    BY <1>9
  <2>2. k = 1 <=> l = 1
    BY <1>3, <1>9, <1>11, Zenon
  <2>3. k # 1 => k - 1 = l - 1
    BY <1>4, <1>11, <2>2
  <2> QED
    BY <2>1, <2>2, <2>3
<1>13. \A k \in 1..Len(g) : \E j \in 1..new.capacity : g[k] = Block(p, new, j)
  <2> TAKE k \in 1..Len(g)
  <2>1. \A j : Block(p, new, j) = Block(p, page, j)
    BY <1>2 DEF Block
  <2>2. CASE k = 1
    BY <2>1, <2>2, <1>2, <1>8, <1>9
  <2>3. CASE k # 1
    BY <2>1, <2>3, <1>2, <1>5, <1>11
  <2> QED
    BY <2>2, <2>3
<1>14. PageInv(p, new)
  <2>0. new.free = g
    BY DEF g
  <2>1. IsInjective(new.free)
    <3>1. DOMAIN g = 1..Len(g)
      BY <1>9
    <3> QED
      BY <1>12, <2>0, <3>1 DEF IsInjective
  <2>2. new.used + Len(new.free) = new.capacity
    <3>1. Len(f) \in Nat /\ Len(g) = Len(f) + 1
      BY <1>9
    <3> QED
      BY <1>2, <1>6, <2>0, <3>1
  <2>3. /\ new.size # 0 /\ new.size <= SmallMax - MinObj
        /\ new.capacity = PageBytes(p) \div new.size
    BY <1>1, <1>2, <1>7
  <2>4. \A k \in 1..Len(new.free) :
           \E j \in 1..new.capacity : new.free[k] = Block(p, new, j)
    BY <1>13 DEF g
  <2> QED
    BY <1>10, <2>1, <2>2, <2>3, <2>4 DEF PageInv
<1>15. \E k \in 1..Len(g) : g[k] = x
  BY <1>9
<1>16. \A y : (\E k \in 1..Len(f) : f[k] = y) => \E k \in 1..Len(g) : g[k] = y
  <2> SUFFICES ASSUME NEW k \in 1..Len(f)
               PROVE  \E l \in 1..Len(g) : g[l] = f[k]
    OBVIOUS
  <2>1. k + 1 \in 1..Len(g)
    BY <1>9
  <2> QED
    BY <2>1, <1>9
<1>17. \A y : (\E k \in 1..Len(g) : g[k] = y)
               => y = x \/ \E k \in 1..Len(f) : f[k] = y
  <2> SUFFICES ASSUME NEW k \in 1..Len(g)
               PROVE  g[k] = x \/ \E l \in 1..Len(f) : f[l] = g[k]
    BY Zenon
  <2>1. k = 1 \/ (k - 1 \in 1..Len(f) /\ g[k] = f[k - 1])
    BY <1>11, Zenon
  <2> QED
    BY <1>9, <2>1, Zenon
<1> QED
  BY <1>2, <1>14, <1>15, <1>16, <1>17 DEF IsFree, new, f, g, x

-----------------------------------------------------------------------------
(* The three changes of a page: what they do to the objects in use.        *)
AllPages(pages) ==
    /\ pages \in [PageIds -> Page]
    /\ \A p \in PageIds : PageInv(p, pages[p])

SameShape(pages, new) ==
    \A q \in PageIds : /\ new[q].size = pages[q].size
                       /\ new[q].capacity = pages[q].capacity

LEMMA SameBlocks ==
    ASSUME NEW pages, NEW new, SameShape(pages, new)
    PROVE  \A q \in PageIds : \A i : Block(q, new[q], i) = Block(q, pages[q], i)
  BY DEF SameShape, Block

LEMMA LiveTake ==
    ASSUME NEW pages, NEW lv, AllPages(pages), LiveInv(pages, lv),
           NEW p \in PageIds, pages[p].free # << >>,
           NEW sz \in Nat, sz >= 1, sz <= pages[p].size
    PROVE  LET new == [pages EXCEPT ![p] = Taken(pages[p])]
           IN  /\ AllPages(new)
               /\ SameShape(pages, new)
               /\ LiveInv(new, lv \union {<<Head(pages[p].free), sz>>})
<1> DEFINE new == [pages EXCEPT ![p] = Taken(pages[p])]
           x == Head(pages[p].free)
<1>1. pages \in [PageIds -> Page] /\ PageInv(p, pages[p])
  BY DEF AllPages
<1>2. new[p] = Taken(pages[p]) /\ \A q \in PageIds : q # p => new[q] = pages[q]
  BY <1>1
<1>3. /\ PageInv(p, new[p])
      /\ new[p].size = pages[p].size /\ new[p].capacity = pages[p].capacity
      /\ \E i \in 1..pages[p].capacity : x = Block(p, pages[p], i)
      /\ IsFree(pages[p], x)
      /\ ~IsFree(new[p], x)
      /\ \A y : IsFree(new[p], y) => IsFree(pages[p], y)
      /\ \A y : IsFree(pages[p], y) => y = x \/ IsFree(new[p], y)
  BY <1>1, <1>2, TakenPage
<1>4. AllPages(new)
  <2>1. new[p] \in Page
    BY <1>3 DEF PageInv
  <2>2. new \in [PageIds -> Page]
    BY <1>1, <1>2, <2>1
  <2>3. \A q \in PageIds : PageInv(q, new[q])
    BY <1>2, <1>3 DEF AllPages
  <2> QED
    BY <2>2, <2>3 DEF AllPages
<1>5. SameShape(pages, new)
  BY <1>2, <1>3 DEF SameShape
<1> HIDE DEF new, x
<1>6. \A q \in PageIds : \A i : Block(q, new[q], i) = Block(q, pages[q], i)
  BY <1>5, SameBlocks
<1>7. \A q \in PageIds : \A y : IsFree(new[q], y) => IsFree(pages[q], y)
  BY <1>2, <1>3
<1>8. x \in Nat /\ PageOf(x) = p
  BY <1>1, <1>3, BlockPlace
<1>9. \A o \in lv : Placed(new, o)
  <2> TAKE o \in lv
  <2>1. Placed(pages, o)
    BY DEF LiveInv
  <2> DEFINE q == PageOf(o[1])
  <2>2. /\ o \in Nat \X Nat /\ q \in PageIds /\ ~IsFree(pages[q], o[1])
        /\ o[2] >= 1 /\ o[2] <= pages[q].size
    BY <2>1 DEF Placed
  <2>3. PICK i \in 1..pages[q].capacity : o[1] = Block(q, pages[q], i)
    BY <2>1 DEF Placed
  <2> HIDE DEF q
  <2>4. new[q].size = pages[q].size /\ new[q].capacity = pages[q].capacity
    BY <1>5, <2>2 DEF SameShape
  <2>5. i \in 1..new[q].capacity /\ o[1] = Block(q, new[q], i)
    BY <1>6, <2>2, <2>3, <2>4
  <2>6. ~IsFree(new[q], o[1])
    BY <1>7, <2>2
  <2> QED
    BY <2>2, <2>4, <2>5, <2>6 DEF Placed, q
<1>10. Placed(new, <<x, sz>>)
  <2>1. PICK i \in 1..pages[p].capacity : x = Block(p, pages[p], i)
    BY <1>3
  <2>2. i \in 1..new[p].capacity /\ x = Block(p, new[p], i)
    BY <1>3, <1>6, <2>1
  <2>3. <<x, sz>> \in Nat \X Nat /\ <<x, sz>>[1] = x /\ <<x, sz>>[2] = sz
    BY <1>8
  <2> QED
    BY <1>3, <1>8, <2>2, <2>3 DEF Placed
<1>11. \A o \in lv : o[1] # x
  <2> SUFFICES ASSUME NEW o \in lv, o[1] = x PROVE FALSE
    OBVIOUS
  <2>1. ~IsFree(pages[PageOf(o[1])], o[1])
    BY DEF LiveInv, Placed
  <2> QED
    BY <1>3, <1>8, <2>1
<1> DEFINE lw == lv \union {<<x, sz>>}
<1>12. \A o, q \in lw : o[1] = q[1] => o = q
  <2>1. \A o, q \in lv : o[1] = q[1] => o = q
    BY DEF LiveInv
  <2> QED
    BY <1>11, <2>1
<1>13. \A q \in PageIds : \A i \in 1..new[q].capacity :
          IsFree(new[q], Block(q, new[q], i)) \/ InUse(lw, Block(q, new[q], i))
  <2> SUFFICES ASSUME NEW q \in PageIds, NEW i \in 1..new[q].capacity
               PROVE  \/ IsFree(new[q], Block(q, new[q], i))
                      \/ InUse(lw, Block(q, new[q], i))
    BY Zenon
  <2> DEFINE y == Block(q, new[q], i)
  <2>1. y = Block(q, pages[q], i) /\ i \in 1..pages[q].capacity
    BY <1>5, <1>6 DEF SameShape
  <2>2. IsFree(pages[q], y) \/ InUse(lv, y)
    BY <2>1 DEF LiveInv
  <2> HIDE DEF y
  <2>3. InUse(lv, y) => InUse(lw, y)
    BY DEF InUse
  <2>4. InUse(lw, x)
    <3>1. <<x, sz>> \in lw /\ <<x, sz>>[1] = x
      OBVIOUS
    <3> QED
      BY ONLY <3>1, Zenon DEF InUse
  <2>5. IsFree(pages[q], y) => IsFree(new[q], y) \/ y = x
    BY <1>2, <1>3
  <2> QED
    BY <2>2, <2>3, <2>4, <2>5 DEF y
<1>14. LiveInv(new, lw)
  BY <1>9, <1>10, <1>12, <1>13, Zenon DEF LiveInv
<1> QED
  BY <1>4, <1>5, <1>14 DEF new, x

LEMMA LivePush ==
    ASSUME NEW pages, NEW lv, AllPages(pages), LiveInv(pages, lv), NEW o \in lv
    PROVE  LET p == PageOf(o[1])
               new == [pages EXCEPT ![p] = Pushed(pages[p], o[1])]
           IN  /\ p \in PageIds
               /\ AllPages(new)
               /\ SameShape(pages, new)
               /\ LiveInv(new, lv \ {o})
<1> DEFINE x == o[1]
           p == PageOf(x)
           new == [pages EXCEPT ![p] = Pushed(pages[p], x)]
           lw == lv \ {o}
<1>1. p \in PageIds /\ ~IsFree(pages[p], x)
  BY DEF LiveInv, Placed
<1>2. PICK i \in 1..pages[p].capacity : x = Block(p, pages[p], i)
  BY DEF LiveInv, Placed
<1>3. pages \in [PageIds -> Page] /\ PageInv(p, pages[p])
  BY <1>1 DEF AllPages
<1> HIDE DEF x, p
<1>4. new[p] = Pushed(pages[p], x) /\ \A q \in PageIds : q # p => new[q] = pages[q]
  BY <1>1, <1>3
<1>5. /\ PageInv(p, new[p])
      /\ new[p].size = pages[p].size /\ new[p].capacity = pages[p].capacity
      /\ IsFree(new[p], x)
      /\ \A y : IsFree(pages[p], y) => IsFree(new[p], y)
      /\ \A y : IsFree(new[p], y) => y = x \/ IsFree(pages[p], y)
  BY <1>1, <1>2, <1>3, <1>4, PushedPage
<1>6. AllPages(new)
  <2>1. new[p] \in Page
    BY <1>5 DEF PageInv
  <2>2. new \in [PageIds -> Page]
    BY <1>3, <1>4, <2>1, Zenon
  <2>3. \A q \in PageIds : PageInv(q, new[q])
    BY <1>4, <1>5 DEF AllPages
  <2> QED
    BY <2>2, <2>3 DEF AllPages
<1>7. SameShape(pages, new)
  BY <1>4, <1>5 DEF SameShape
<1> HIDE DEF new
<1>8. \A q \in PageIds : \A j : Block(q, new[q], j) = Block(q, pages[q], j)
  BY <1>7, SameBlocks
<1>9. \A q \in PageIds : \A y : IsFree(new[q], y) => y = x \/ IsFree(pages[q], y)
  BY <1>4, <1>5
<1>10. \A r \in lw : r \in lv /\ r[1] # x
  BY DEF LiveInv, x
<1>11. \A r \in lw : Placed(new, r)
  <2> TAKE r \in lw
  <2>1. Placed(pages, r) /\ r[1] # x
    BY <1>10 DEF LiveInv
  <2> DEFINE q == PageOf(r[1])
  <2>2. /\ r \in Nat \X Nat /\ q \in PageIds /\ ~IsFree(pages[q], r[1])
        /\ r[2] >= 1 /\ r[2] <= pages[q].size
    BY <2>1 DEF Placed
  <2>3. PICK j \in 1..pages[q].capacity : r[1] = Block(q, pages[q], j)
    BY <2>1 DEF Placed
  <2> HIDE DEF q
  <2>4. new[q].size = pages[q].size /\ new[q].capacity = pages[q].capacity
    BY <1>7, <2>2 DEF SameShape
  <2>5. j \in 1..new[q].capacity /\ r[1] = Block(q, new[q], j)
    BY <1>8, <2>2, <2>3, <2>4
  <2>6. ~IsFree(new[q], r[1])
    BY <1>9, <2>1, <2>2
  <2> QED
    BY <2>2, <2>4, <2>5, <2>6 DEF Placed, q
<1>12. \A r, q \in lw : r[1] = q[1] => r = q
  BY <1>10 DEF LiveInv
<1>13. \A q \in PageIds : \A j \in 1..new[q].capacity :
          IsFree(new[q], Block(q, new[q], j)) \/ InUse(lw, Block(q, new[q], j))
  <2> SUFFICES ASSUME NEW q \in PageIds, NEW j \in 1..new[q].capacity
               PROVE  \/ IsFree(new[q], Block(q, new[q], j))
                      \/ InUse(lw, Block(q, new[q], j))
    OBVIOUS
  <2> DEFINE y == Block(q, new[q], j)
  <2>1. y = Block(q, pages[q], j) /\ j \in 1..pages[q].capacity
    BY <1>7, <1>8 DEF SameShape
  <2>2. IsFree(pages[q], y) \/ InUse(lv, y)
    BY <2>1 DEF LiveInv
  <2>3. y = x => q = p
    BY <1>3, <2>1, BlockPlace, Zenon DEF AllPages, p
  <2> HIDE DEF y
  <2>4. InUse(lv, y) => InUse(lw, y) \/ y = x
    BY DEF InUse, x
  <2>5. IsFree(pages[q], y) => IsFree(new[q], y)
    BY <1>4, <1>5
  <2>6. y = x => IsFree(new[q], y)
    BY <1>5, <2>3
  <2> QED
    BY <2>2, <2>4, <2>5, <2>6 DEF y
<1>14. LiveInv(new, lw)
  BY <1>11, <1>12, <1>13 DEF LiveInv
<1> QED
  BY <1>1, <1>6, <1>7, <1>14 DEF new, p, x

(* An unclaimed page has no object in use.                                 *)
LEMMA LiveClaim ==
    ASSUME NEW pages, NEW lv, AllPages(pages), LiveInv(pages, lv),
           NEW p \in PageIds, pages[p].size = 0,
           NEW bs \in Nat \ {0}, bs <= SmallMax - MinObj
    PROVE  LET new == [pages EXCEPT ![p] = Claimed(p, bs)]
           IN  AllPages(new) /\ LiveInv(new, lv)
<1> DEFINE new == [pages EXCEPT ![p] = Claimed(p, bs)]
<1>1. pages \in [PageIds -> Page]
  BY DEF AllPages
<1>2. new[p] = Claimed(p, bs) /\ \A q \in PageIds : q # p => new[q] = pages[q]
  BY <1>1
<1>3. /\ PageInv(p, new[p])
      /\ \A i \in 1..new[p].capacity : IsFree(new[p], Block(p, new[p], i))
  BY <1>2, ClaimedPage
<1>4. AllPages(new)
  <2>1. new[p] \in Page
    BY <1>3 DEF PageInv
  <2>2. new \in [PageIds -> Page]
    BY <1>1, <1>2, <2>1
  <2>3. \A q \in PageIds : PageInv(q, new[q])
    BY <1>2, <1>3 DEF AllPages
  <2> QED
    BY <2>2, <2>3 DEF AllPages
<1> HIDE DEF new
<1>5. \A o \in lv : Placed(new, o)
  <2> TAKE o \in lv
  <2>1. Placed(pages, o)
    BY DEF LiveInv
  <2>2. PageOf(o[1]) \in PageIds /\ PageOf(o[1]) # p
    BY <2>1 DEF Placed
  <2>3. new[PageOf(o[1])] = pages[PageOf(o[1])]
    BY <1>2, <2>2
  <2> QED
    BY <2>1, <2>3 DEF Placed
<1>6. \A o, q \in lv : o[1] = q[1] => o = q
  BY DEF LiveInv
<1>7. \A q \in PageIds : \A i \in 1..new[q].capacity :
          IsFree(new[q], Block(q, new[q], i)) \/ InUse(lv, Block(q, new[q], i))
  <2> TAKE q \in PageIds
  <2>1. CASE q = p
    BY <1>3, <2>1
  <2>2. CASE q # p
    BY <1>2, <2>2 DEF LiveInv
  <2> QED
    BY <2>1, <2>2
<1>8. LiveInv(new, lv)
  BY <1>5, <1>6, <1>7 DEF LiveInv
<1> QED
  BY <1>4, <1>8 DEF new

-----------------------------------------------------------------------------
(* The block size and the size class of a request.                         *)
LEMMA SizeClasses ==
    ASSUME NEW sz \in Nat, sz >= 1
    PROVE  /\ ToSizeClass(sz) \in Nat
           /\ ToBlockSize(sz) = ToSizeClass(sz) * MinObj
           /\ ToBlockSize(sz) \in Nat \ {0}
           /\ sz <= ToBlockSize(sz)
           /\ ToSizeClass(sz) \in 0..(NumSizeClasses - 1)
                => ToBlockSize(sz) <= SmallMax - MinObj
           /\ ToSizeClass(sz) \notin 0..(NumSizeClasses - 1)
                => sz > SmallMax - MinObj
<1> DEFINE m == MinObj
           k == (sz + m - 1) \div m
           bs == k * m
           n == SmallMax \div m
<1>1. m \in Nat \ {0} /\ SmallMax \in Nat \ {0} /\ SmallMax % m = 0
  BY SizesAssumption
<1>2. sz + m - 1 \in Nat /\ SmallMax + m - 1 \in Nat
  BY <1>1
<1>3. /\ k \in Nat /\ (sz + m - 1) % m \in 0..(m - 1)
      /\ sz + m - 1 = k * m + ((sz + m - 1) % m)
  BY <1>1, <1>2, DivMod, Zenon
<1>4. bs \in Nat /\ sz <= bs /\ bs <= sz + m - 1
  BY <1>1, <1>3
<1>5. n \in Nat /\ SmallMax = n * m
  BY <1>1, DivMod
<1>6. NumSizeClasses = n
  <2>1. n * m <= SmallMax + m - 1 /\ SmallMax + m - 1 < n * m + m
    BY <1>1, <1>5
  <2> HIDE DEF n
  <2> QED
    BY <1>1, <1>2, <1>5, <2>1, DivUnique DEF NumSizeClasses
<1>7. ToBlockSize(sz) = bs
  BY DEF ToBlockSize
<1> HIDE DEF m, k, n
<1>8. bs \div m = k
  <2>1. k * m <= bs /\ bs < k * m + m
    BY <1>1, <1>4
  <2> QED
    BY <1>1, <1>3, <1>4, <2>1, DivUnique
<1>9. ToSizeClass(sz) = k
  BY <1>7, <1>8 DEF ToSizeClass, m
<1>10. k \in 0..(n - 1) => bs <= SmallMax - m
  <2> SUFFICES ASSUME k < n PROVE bs <= SmallMax - m
    BY <1>3, <1>5
  <2>1. k * m + m <= n * m
    BY <1>1, <1>3, <1>5, TimesLess
  <2> QED
    BY <2>1, <1>1, <1>4, <1>5
<1>11. k \notin 0..(n - 1) => sz > SmallMax - m
  <2> SUFFICES ASSUME n <= k PROVE sz > SmallMax - m
    BY <1>3, <1>5
  <2>1. n * m <= k * m
    <3>1. n < k => n * m + m <= k * m
      BY <1>1, <1>3, <1>5, TimesLess
    <3>2. n * m \in Nat /\ k * m \in Nat
      BY <1>1, <1>3, <1>5
    <3>3. n = k => n * m = k * m
      OBVIOUS
    <3> QED
      BY <3>1, <3>2, <3>3, <1>1, <1>3, <1>5
  <2> QED
    BY <2>1, <1>1, <1>4, <1>5
<1> HIDE DEF bs
<1>12. bs \in Nat \ {0} /\ bs = k * m
  BY <1>4 DEF bs
<1> QED
  BY <1>3, <1>4, <1>6, <1>7, <1>9, <1>10, <1>11, <1>12 DEF m

(* The fields of the heap after each change.                               *)
Classes == 0..(NumSizeClasses - 1)

LEMMA AllocObjFields ==
    ASSUME NEW h \in Heap, NEW c \in Classes, h.class[c] \in PageIds
    PROVE  /\ AllocObj(h, c).pages
                = [h.pages EXCEPT ![h.class[c]] = Taken(h.pages[h.class[c]])]
           /\ AllocObj(h, c).queue = h.queue
           /\ AllocObj(h, c).class = h.class
           /\ AllocObj(h, c).segments = h.segments
           /\ AllocObj(h, c).pages \in [PageIds -> Page] => AllocObj(h, c) \in Heap
  BY Zenon DEF AllocObj, Taken, WithFree, Heap, Page

FreeObj(h, o) ==
    [h EXCEPT !.pages[PageOf(o[1])].free = <<o[1]>> \o @,
              !.pages[PageOf(o[1])].used = @ - 1]

LEMMA FreeObjFields ==
    ASSUME NEW h \in Heap, NEW o, PageOf(o[1]) \in PageIds
    PROVE  /\ FreeObj(h, o).pages
                = [h.pages EXCEPT ![PageOf(o[1])] = Pushed(h.pages[PageOf(o[1])], o[1])]
           /\ FreeObj(h, o).queue = h.queue
           /\ FreeObj(h, o).class = h.class
           /\ FreeObj(h, o).segments = h.segments
           /\ FreeObj(h, o).pages \in [PageIds -> Page] => FreeObj(h, o) \in Heap
  BY Zenon DEF FreeObj, Pushed, WithFree, Heap, Page

LEMMA HeapSameShape ==
    ASSUME NEW h, HeapInv(h), NEW g \in Heap,
           g.queue = h.queue, g.class = h.class, g.segments = h.segments,
           AllPages(g.pages), SameShape(h.pages, g.pages)
    PROVE  HeapInv(g)
<1>1. h \in Heap
  BY DEF HeapInv
<1>2. \A p \in PageIds : PageInv(p, g.pages[p])
  BY DEF AllPages
<1>3. \A p \in PageIds : p[1] > g.segments => g.pages[p].size = 0
  BY DEF HeapInv, SameShape
<1>4. \A k \in 1..Len(g.queue) : g.queue[k] \in 1..g.segments
  BY DEF HeapInv
<1>5. \A c \in 0..(NumSizeClasses - 1) :
         g.class[c] # NoPage => /\ g.pages[g.class[c]].size = c * MinObj
                                /\ g.pages[g.class[c]].size # 0
  <2> TAKE c \in 0..(NumSizeClasses - 1)
  <2>1. g.class[c] # NoPage => g.class[c] \in PageIds
    BY Zenon DEF Heap
  <2> QED
    BY <2>1 DEF HeapInv, SameShape
<1> QED
  BY <1>2, <1>3, <1>4, <1>5 DEF HeapInv

(* Popping segments off the queue and asking for a new one leave the pages *)
(* alone; the segment at the head then has a page that fits.               *)
LEMMA PoppedQueue ==
    ASSUME NEW h, HeapInv(h), NEW bs
    PROVE  LET q == QueueFrom(h, bs)
           IN  /\ q \in Seq(1..NSegments)
               /\ \A k \in 1..Len(q) : q[k] \in 1..h.segments
               /\ q # << >> => FitIn(h, Head(q), bs) # {}
<1> DEFINE fit == {k \in 1..Len(h.queue) : FitIn(h, h.queue[k], bs) # {}}
           q == QueueFrom(h, bs)
           Q == h.queue
<1>1. /\ Q \in Seq(1..NSegments) /\ Len(Q) \in Nat
      /\ \A k \in 1..Len(Q) : Q[k] \in 1..h.segments
  BY DEF HeapInv, Heap
<1>2. CASE fit = {}
  <2>1. q = << >>
    BY <1>2 DEF QueueFrom
  <2>2. << >> \in Seq(1..NSegments) /\ Len(<< >>) = 0
    OBVIOUS
  <2>3. \A k \in 1..Len(q) : q[k] \in 1..h.segments
    BY <2>1, <2>2
  <2> QED
    BY <2>1, <2>2, <2>3
<1>3. CASE fit # {}
  <2> DEFINE n == CHOOSE k \in fit : \A j \in fit : k <= j
  <2>1. n \in fit
    <3>1. fit \subseteq Nat
      BY <1>1
    <3>2. \E k \in fit : \A j \in fit : k <= j
      BY <1>3, <3>1, LeastNatural, Zenon
    <3> QED
      BY <3>2, Zenon
  <2>2. q = SubSeq(Q, n, Len(Q))
    BY <1>3, Zenon DEF QueueFrom
  <2>3. n \in 1..Len(Q) /\ FitIn(h, Q[n], bs) # {}
    BY <2>1, Zenon
  <2> HIDE DEF n, q, Q
  <2>4. /\ q \in Seq(1..NSegments) /\ Len(q) = Len(Q) - n + 1
        /\ \A k \in 1..Len(q) : q[k] = Q[n + k - 1] /\ n + k - 1 \in 1..Len(Q)
    <3>1. n \in Int /\ Len(Q) \in Int /\ n <= Len(Q) /\ n >= 1
      BY <1>1, <2>3
    <3>2. \A k \in n..Len(Q) : Q[k] \in 1..NSegments
      <4> TAKE k \in n..Len(Q)
      <4>1. k \in 1..Len(Q)
        BY <3>1
      <4> QED
        BY <1>1, <4>1, ElementOfSeq, Zenon
    <3>3. /\ q \in Seq(1..NSegments) /\ Len(q) = Len(Q) - n + 1
          /\ \A k \in 1..(Len(Q) - n + 1) : q[k] = Q[n + k - 1]
      BY <2>2, <3>1, <3>2, SubSeqProperties
    <3>4. \A k \in 1..(Len(Q) - n + 1) : n + k - 1 \in 1..Len(Q)
      BY <3>1
    <3> QED
      BY <3>3, <3>4
  <2>5. Head(q) = Q[n]
    <3>1. 1 \in 1..Len(q) /\ n + 1 - 1 = n
      BY <1>1, <2>3, <2>4
    <3>2. q[1] = Q[n + 1 - 1]
      BY <2>4, <3>1
    <3> QED
      BY <3>1, <3>2, <2>4
  <2>6. \A k \in 1..Len(q) : q[k] \in 1..h.segments
    BY <1>1, <2>4
  <2> QED
    BY <2>3, <2>4, <2>5, <2>6 DEF q
<1> QED
  BY <1>2, <1>3, Zenon

LEMMA QueueStep ==
    ASSUME NEW h, HeapInv(h), NEW bs
    PROVE  LET g == WithSegment([h EXCEPT !.queue = QueueFrom(h, bs)])
           IN  /\ HeapInv(g)
               /\ g.pages = h.pages /\ g.class = h.class
               /\ g.queue # << >> => /\ Head(g.queue) \in 1..NSegments
                                     /\ FitIn(g, Head(g.queue), bs) # {}
<1> DEFINE q == QueueFrom(h, bs)
           r == [h EXCEPT !.queue = q]
           g == WithSegment(r)
<1> SUFFICES /\ HeapInv(g)
             /\ g.pages = h.pages /\ g.class = h.class
             /\ g.queue # << >> => /\ Head(g.queue) \in 1..NSegments
                                   /\ FitIn(g, Head(g.queue), bs) # {}
  OBVIOUS
<1>1. /\ h \in Heap /\ q \in Seq(1..NSegments)
      /\ \A k \in 1..Len(q) : q[k] \in 1..h.segments
      /\ q # << >> => FitIn(h, Head(q), bs) # {}
  BY PoppedQueue DEF HeapInv
<1> HIDE DEF q
<1>2. /\ r \in Heap /\ r.pages = h.pages /\ r.class = h.class
      /\ r.segments = h.segments /\ r.queue = q
  BY <1>1, Zenon DEF Heap
<1> HIDE DEF r
<1>3. HeapInv(r)
  <2>1. \A p \in PageIds : PageInv(p, r.pages[p])
    BY <1>2 DEF HeapInv
  <2>2. \A p \in PageIds : p[1] > r.segments => r.pages[p].size = 0
    BY <1>2 DEF HeapInv
  <2>3. \A k \in 1..Len(r.queue) : r.queue[k] \in 1..r.segments
    BY <1>1, <1>2
  <2>4. \A c \in 0..(NumSizeClasses - 1) :
           r.class[c] # NoPage => /\ r.pages[r.class[c]].size = c * MinObj
                                  /\ r.pages[r.class[c]].size # 0
    BY <1>2 DEF HeapInv
  <2> QED
    BY <1>2, <2>1, <2>2, <2>3, <2>4 DEF HeapInv
<1>4. CASE ~(q = << >> /\ r.segments < NSegments)
  <2>1. g = r
    BY <1>2, <1>4 DEF WithSegment
  <2>2. q # << >> => Head(q) \in 1..NSegments
    BY <1>1, HeadTailProperties, Zenon
  <2>3. FitIn(r, Head(q), bs) = FitIn(h, Head(q), bs)
    BY <1>2 DEF FitIn
  <2> QED
    BY <1>1, <1>2, <1>3, <2>1, <2>2, <2>3
<1>5. CASE q = << >> /\ r.segments < NSegments
  <2> DEFINE s == h.segments + 1
  <2>1. g = [r EXCEPT !.segments = @ + 1, !.queue = <<r.segments + 1>>]
    BY <1>2, <1>5 DEF WithSegment
  <2>2. h.segments \in Nat /\ s \in 1..NSegments /\ s \in 0..NSegments /\ s \in Nat
    BY <1>1, <1>2, <1>5, Geometry DEF Heap
  <2>3. /\ g.segments = s /\ g.queue = <<s>>
        /\ g.pages = h.pages /\ g.class = h.class
    BY <1>2, <2>1 DEF Heap
  <2>4. g \in Heap
    <3>1. <<s>> \in Seq(1..NSegments)
      BY <2>2
    <3> HIDE DEF s
    <3> QED
      BY <1>2, <2>1, <2>2, <2>3, <3>1, Zenon DEF Heap
  <2> HIDE DEF g, s
  <2>5. Len(g.queue) = 1 /\ g.queue[1] = s /\ Head(g.queue) = s
    BY <2>3
  <2>6. HeapInv(g)
    <3>1. \A p \in PageIds : PageInv(p, g.pages[p])
      BY <2>3 DEF HeapInv
    <3>2. \A p \in PageIds : p[1] > g.segments => g.pages[p].size = 0
      <4> SUFFICES ASSUME NEW p \in PageIds, p[1] > s PROVE h.pages[p].size = 0
        BY <2>3
      <4>1. p[1] \in Int
        BY PagePlace
      <4>2. p[1] > h.segments
        BY <4>1, <2>2 DEF s
      <4> QED
        BY <4>2 DEF HeapInv
    <3>3. \A k \in 1..Len(g.queue) : g.queue[k] \in 1..g.segments
      BY <2>2, <2>3, <2>5
    <3>4. \A c \in 0..(NumSizeClasses - 1) :
             g.class[c] # NoPage => /\ g.pages[g.class[c]].size = c * MinObj
                                    /\ g.pages[g.class[c]].size # 0
      BY <2>3 DEF HeapInv
    <3> QED
      BY <2>4, <3>1, <3>2, <3>3, <3>4 DEF HeapInv
  <2>7. FitIn(g, s, bs) # {}
    <3>1. <<s, 0>> \in PageIds /\ 0 \in 0..(NPages - 1) /\ <<s, 0>>[1] = s
      BY <2>2, Geometry DEF PageIds
    <3>2. s > h.segments
      BY <2>2 DEF s
    <3>3. g.pages[<<s, 0>>].size = 0
      BY <2>3, <3>1, <3>2 DEF HeapInv
    <3> QED
      BY <3>1, <3>3 DEF FitIn, Fits
  <2> QED
    BY <2>2, <2>3, <2>5, <2>6, <2>7
<1> QED
  BY <1>4, <1>5

(* malloc_heap_alloc_page: the page it puts in the size class.             *)
LEMMA FoundPage ==
    ASSUME NEW g, NEW s \in 1..NSegments, NEW bs, FitIn(g, s, bs) # {}
    PROVE  /\ <<s, FirstIn(g, s, bs)>> \in PageIds
           /\ Fits(g.pages[<<s, FirstIn(g, s, bs)>>], bs)
<1> DEFINE fit == FitIn(g, s, bs)
<1>1. fit \subseteq Nat
  BY Geometry DEF FitIn
<1>2. \E i \in fit : \A j \in fit : i <= j
  BY <1>1, LeastNatural
<1>3. FirstIn(g, s, bs) \in fit
  BY <1>2 DEF FirstIn
<1> QED
  BY <1>3 DEF FitIn, PageIds

PlacePage(g, c, p, page) == [g EXCEPT !.class[c] = p, !.pages[p] = page]

LEMMA PlacePageFields ==
    ASSUME NEW g \in Heap, NEW c \in Classes, NEW p \in PageIds, NEW page \in Page
    PROVE  /\ PlacePage(g, c, p, page).pages = [g.pages EXCEPT ![p] = page]
           /\ PlacePage(g, c, p, page).class = [g.class EXCEPT ![c] = p]
           /\ PlacePage(g, c, p, page).queue = g.queue
           /\ PlacePage(g, c, p, page).segments = g.segments
           /\ PlacePage(g, c, p, page) \in Heap
  BY Zenon DEF PlacePage, Heap, Classes

SetPage(pages, p, page) == [pages EXCEPT ![p] = page]

LEMMA PlacePagePages ==
    ASSUME NEW g \in Heap, NEW c \in Classes, NEW p \in PageIds, NEW page \in Page
    PROVE  PlacePage(g, c, p, page).pages = SetPage(g.pages, p, page)
  BY DEF SetPage, PlacePage, Heap, Classes

LEMMA PlacePageStep ==
    ASSUME NEW g, HeapInv(g), NEW c \in Classes, NEW p \in PageIds, NEW page,
           p[1] <= g.segments, PageInv(p, page),
           page.size = c * MinObj, page.size # 0,
           g.pages[p].size = 0 \/ page = g.pages[p]
    PROVE  HeapInv(PlacePage(g, c, p, page))
<1> DEFINE h == PlacePage(g, c, p, page)
<1>1. g \in Heap /\ page \in Page
  BY DEF HeapInv, PageInv
<1>2. /\ h.pages = [g.pages EXCEPT ![p] = page] /\ h.class = [g.class EXCEPT ![c] = p]
      /\ h.queue = g.queue /\ h.segments = g.segments /\ h \in Heap
  BY <1>1, PlacePageFields
<1> HIDE DEF h
<1>3. h.pages[p] = page /\ \A q \in PageIds : q # p => h.pages[q] = g.pages[q]
  BY <1>1, <1>2 DEF Heap
<1>4. h.class[c] = p /\ \A d \in Classes : d # c => h.class[d] = g.class[d]
  BY <1>1, <1>2, Zenon DEF Heap, Classes
<1>5. \A q \in PageIds : PageInv(q, h.pages[q])
  BY <1>3 DEF HeapInv
<1>6. \A q \in PageIds : q[1] > h.segments => h.pages[q].size = 0
  <2> SUFFICES ASSUME NEW q \in PageIds, q[1] > h.segments
               PROVE  h.pages[q].size = 0
    OBVIOUS
  <2>1. q[1] \in Int /\ p[1] \in Int /\ g.segments \in Int
    BY <1>1, PagePlace, Geometry DEF Heap
  <2>2. q # p
    BY <1>2, <2>1
  <2> QED
    BY <1>2, <1>3, <2>2 DEF HeapInv
<1>7. \A k \in 1..Len(h.queue) : h.queue[k] \in 1..h.segments
  BY <1>2 DEF HeapInv
<1>8. \A d \in Classes :
         h.class[d] # NoPage => /\ h.pages[h.class[d]].size = d * MinObj
                                /\ h.pages[h.class[d]].size # 0
  <2> TAKE d \in Classes
  <2>1. CASE d = c
    BY <1>3, <1>4, <2>1
  <2>2. CASE d # c
    <3>1. h.class[d] = g.class[d] /\ g.class[d] \in PageIds \union {NoPage}
      BY <1>1, <1>4, <2>2, Zenon DEF Heap, Classes
    <3>2. g.class[d] # NoPage => /\ g.pages[g.class[d]].size = d * MinObj
                                 /\ g.pages[g.class[d]].size # 0
      BY DEF HeapInv, Classes
    <3>3. g.class[d] # NoPage => h.pages[g.class[d]] = g.pages[g.class[d]]
      BY <1>3, <3>1, <3>2
    <3> QED
      BY <3>1, <3>2, <3>3, Zenon
  <2> QED
    BY <2>1, <2>2
<1> QED
  BY <1>2, <1>5, <1>6, <1>7, <1>8 DEF HeapInv, Classes, h

LEMMA AllocPageStep ==
    ASSUME NEW h, NEW lv, HeapInv(h), LiveInv(h.pages, lv), NEW c \in Classes,
           NEW bs \in Nat \ {0}, bs = c * MinObj, bs <= SmallMax - MinObj
    PROVE  LET r == AllocPage(h, bs, c)
           IN  HeapInv(r) /\ LiveInv(r.pages, lv)
<1> DEFINE g == WithSegment([h EXCEPT !.queue = QueueFrom(h, bs)])
           r == AllocPage(h, bs, c)
           s == Head(g.queue)
           p == <<s, FirstIn(g, s, bs)>>
           page == IF g.pages[p].size = 0 THEN Claimed(p, bs) ELSE g.pages[p]
<1> SUFFICES HeapInv(r) /\ LiveInv(r.pages, lv)
  OBVIOUS
<1>1. /\ HeapInv(g) /\ g.pages = h.pages
      /\ g.queue # << >> => /\ s \in 1..NSegments
                            /\ FitIn(g, s, bs) # {}
  BY QueueStep, Zenon
<1>2. g.queue = << >> => r = g
  BY DEF AllocPage
<1>3. g.queue # << >> => r = PlacePage(g, c, p, page)
  BY DEF AllocPage, PlacePage
<1>4. s = Head(g.queue)
  OBVIOUS
<1> HIDE DEF g, r, s
<1>5. CASE g.queue = << >>
  BY <1>1, <1>2, <1>5
<1>6. CASE g.queue # << >>
  <2>1. p \in PageIds /\ Fits(g.pages[p], bs) /\ p[1] = s
    BY <1>1, <1>6, FoundPage, Zenon
  <2> HIDE DEF p
  <2>2. s \in 1..g.segments
    <3>1. g.queue \in Seq(1..NSegments)
      BY <1>1 DEF HeapInv, Heap
    <3>2. s = g.queue[1] /\ 1 \in 1..Len(g.queue)
      BY <1>4, <1>6, <3>1
    <3> QED
      BY <1>1, <3>2 DEF HeapInv
  <2>3. /\ AllPages(g.pages) /\ LiveInv(g.pages, lv) /\ g \in Heap
        /\ PageInv(p, g.pages[p])
    BY <1>1, <2>1 DEF HeapInv, AllPages, Heap
  <2>4. PageInv(p, page) /\ page.size = bs
    BY <2>1, <2>3, ClaimedPage DEF Fits
  <2>5. p[1] <= g.segments
    <3>1. g.segments \in Int
      BY <2>3, Geometry DEF Heap
    <3> QED
      BY <3>1, <2>1, <2>2
  <2>6. g.pages[p].size = 0 \/ page = g.pages[p]
    OBVIOUS
  <2>7. page \in Page
    BY <2>4, Zenon DEF PageInv
  <2>8. LiveInv(SetPage(g.pages, p, page), lv)
    <3>1. CASE g.pages[p].size = 0
      BY <3>1, <2>1, <2>3, LiveClaim DEF SetPage
    <3>2. CASE g.pages[p].size # 0
      <4>1. g.pages \in [PageIds -> Page]
        BY <2>3 DEF AllPages
      <4>2. SetPage(g.pages, p, page) = g.pages
        BY <4>1, <3>2, <2>1 DEF SetPage
      <4> QED
        BY <4>2, <2>3
    <3> QED
      BY <3>1, <3>2
  <2> HIDE DEF page
  <2>9. HeapInv(PlacePage(g, c, p, page))
    BY <1>1, <2>1, <2>4, <2>5, <2>6, PlacePageStep
  <2>10. PlacePage(g, c, p, page).pages = SetPage(g.pages, p, page)
    BY <2>1, <2>3, <2>7, PlacePagePages
  <2> QED
    BY <1>3, <1>6, <2>8, <2>9, <2>10
<1> QED
  BY <1>5, <1>6

(* malloc on a page of the right size with a free block, and free.         *)
LEMMA AllocObjStep ==
    ASSUME NEW h, NEW lv, HeapInv(h), LiveInv(h.pages, lv), NEW c \in Classes,
           ~PageFull(h, c), NEW sz \in Nat, sz >= 1, sz <= c * MinObj
    PROVE  LET r == AllocObj(h, c)
           IN  /\ HeapInv(r)
               /\ LiveInv(r.pages, lv \union {<<Head(h.pages[h.class[c]].free), sz>>})
<1> DEFINE r == AllocObj(h, c)
           p == h.class[c]
<1>1. h \in Heap /\ AllPages(h.pages)
  BY DEF HeapInv, AllPages, Heap
<1>2. p # NoPage /\ h.pages[p].free # << >>
  BY DEF PageFull
<1>3. p \in PageIds /\ h.pages[p].size = c * MinObj
  BY <1>1, <1>2, Zenon DEF HeapInv, Heap, Classes
<1>4. /\ r.pages = [h.pages EXCEPT ![p] = Taken(h.pages[p])]
      /\ r.queue = h.queue /\ r.class = h.class /\ r.segments = h.segments
      /\ r.pages \in [PageIds -> Page] => r \in Heap
  BY <1>1, <1>3, AllocObjFields
<1>5. /\ AllPages(r.pages) /\ SameShape(h.pages, r.pages)
      /\ LiveInv(r.pages, lv \union {<<Head(h.pages[p].free), sz>>})
  <2> DEFINE new == [h.pages EXCEPT ![p] = Taken(h.pages[p])]
  <2>1. sz <= h.pages[p].size
    BY <1>3
  <2>2. /\ AllPages(new) /\ SameShape(h.pages, new)
        /\ LiveInv(new, lv \union {<<Head(h.pages[p].free), sz>>})
    BY <1>1, <1>2, <1>3, <2>1, LiveTake, Zenon
  <2>3. r.pages = new
    BY <1>4
  <2> HIDE DEF new, p
  <2> QED
    BY <2>2, <2>3
<1>6. r \in Heap
  BY <1>4, <1>5, Zenon DEF AllPages
<1> HIDE DEF r
<1>7. HeapInv(r)
  BY <1>4, <1>5, <1>6, HeapSameShape, Zenon
<1> QED
  BY <1>5, <1>7 DEF r

LEMMA FreeObjStep ==
    ASSUME NEW h, NEW lv, HeapInv(h), LiveInv(h.pages, lv), NEW o \in lv
    PROVE  LET r == FreeObj(h, o)
           IN  HeapInv(r) /\ LiveInv(r.pages, lv \ {o})
<1> DEFINE r == FreeObj(h, o)
           p == PageOf(o[1])
<1>1. h \in Heap /\ AllPages(h.pages)
  BY DEF HeapInv, AllPages, Heap
<1>2. p \in PageIds
  BY DEF LiveInv, Placed
<1>3. /\ r.pages = [h.pages EXCEPT ![p] = Pushed(h.pages[p], o[1])]
      /\ r.queue = h.queue /\ r.class = h.class /\ r.segments = h.segments
      /\ r.pages \in [PageIds -> Page] => r \in Heap
  BY <1>1, <1>2, FreeObjFields
<1> HIDE DEF r
<1>4. /\ AllPages(r.pages) /\ SameShape(h.pages, r.pages)
      /\ LiveInv(r.pages, lv \ {o})
  <2> DEFINE new == [h.pages EXCEPT ![p] = Pushed(h.pages[p], o[1])]
  <2>1. AllPages(new) /\ SameShape(h.pages, new) /\ LiveInv(new, lv \ {o})
    BY <1>1, LivePush, Zenon
  <2>2. r.pages = new
    BY <1>3
  <2> HIDE DEF new
  <2> QED
    BY <2>1, <2>2
<1>5. r \in Heap
  BY <1>3, <1>4 DEF AllPages
<1>6. HeapInv(r)
  BY <1>3, <1>4, <1>5, HeapSameShape
<1> QED
  BY <1>4, <1>6 DEF r
-----------------------------------------------------------------------------
LEMMA InitStep == Init => MallocInv
<1> SUFFICES ASSUME Init PROVE MallocInv
  OBVIOUS
<1>1. Unclaimed \in Page /\ << >> \in Seq(1..NSegments) /\ Len(<< >>) = 0
  BY DEF Unclaimed, Page
<1>2. /\ heap.pages = [p \in PageIds |-> Unclaimed] /\ heap.queue = << >>
      /\ heap.class = [c \in 0..(NumSizeClasses - 1) |-> NoPage]
      /\ heap.segments = 0 /\ live = {} /\ wild = 0
  BY DEF Init
<1>3. heap \in Heap
  <2>1. 0 \in 0..NSegments
    BY Geometry
  <2> QED
    BY <1>1, <2>1 DEF Init, Heap
<1>4. \A p \in PageIds : PageInv(p, heap.pages[p])
  <2>1. \A p \in PageIds : PageInv(p, Unclaimed)
    <3> TAKE p \in PageIds
    <3>1. /\ Unclaimed.size = 0 /\ Unclaimed.used = 0
          /\ Unclaimed.capacity = 0 /\ Unclaimed.free = << >>
      BY DEF Unclaimed
    <3>2. IsInjective(Unclaimed.free)
      BY <3>1 DEF IsInjective
    <3> QED
      BY <1>1, <3>1, <3>2 DEF PageInv
  <2> QED
    BY <1>2, <2>1
<1>5. \A p \in PageIds : heap.pages[p].size = 0 /\ heap.pages[p].capacity = 0
  BY <1>2 DEF Unclaimed
<1>6. \A c \in 0..(NumSizeClasses - 1) : heap.class[c] = NoPage
  BY <1>2
<1>7. \A k \in 1..Len(heap.queue) : heap.queue[k] \in 1..heap.segments
  BY <1>1, <1>2
<1>8. HeapInv(heap)
  BY <1>3, <1>4, <1>5, <1>6, <1>7 DEF HeapInv
<1>9. LiveInv(heap.pages, live)
  BY <1>2, <1>5 DEF LiveInv
<1> QED
  BY <1>2, <1>8, <1>9 DEF MallocInv

LEMMA MallocStep ==
    ASSUME MallocInv, NEW size \in Requests, Malloc(size)
    PROVE  MallocInv'
<1> DEFINE sz == IF size = 0 THEN MinObj ELSE size
           bs == ToBlockSize(sz)
           c  == ToSizeClass(sz)
           h  == GetPage(heap, bs, c)
<1>1. sz \in Nat /\ sz >= 1
  BY SizesAssumption, Geometry
<1>2. IF c \notin DOMAIN heap.class
      THEN wild' = sz /\ UNCHANGED <<heap, live>>
      ELSE /\ IF PageFull(h, c)
              THEN heap' = h /\ UNCHANGED live
              ELSE /\ heap' = AllocObj(h, c)
                   /\ live' = live \union {<<Head(h.pages[h.class[c]].free), sz>>}
           /\ UNCHANGED wild
  BY Zenon DEF Malloc
<1>3. DOMAIN heap.class = Classes
  BY DEF MallocInv, HeapInv, Heap, Classes
<1> HIDE DEF sz
<1>4. /\ c \in Nat /\ bs = c * MinObj /\ bs \in Nat \ {0} /\ sz <= bs
      /\ c \in Classes => bs <= SmallMax - MinObj
      /\ c \notin Classes => sz > SmallMax - MinObj
  BY <1>1, SizeClasses DEF Classes
<1> HIDE DEF bs, c
<1>5. CASE c \notin Classes
  <2>1. wild' = sz /\ heap' = heap /\ live' = live
    BY <1>2, <1>3, <1>5
  <2>2. HeapInv(heap') /\ LiveInv(heap'.pages, live')
    BY <2>1 DEF MallocInv
  <2> QED
    BY <1>1, <1>4, <1>5, <2>1, <2>2 DEF MallocInv
<1>6. CASE c \in Classes
  <2>1. HeapInv(heap) /\ LiveInv(heap.pages, live)
    BY DEF MallocInv
  <2>2. HeapInv(h) /\ LiveInv(h.pages, live)
    BY <1>4, <1>6, <2>1, AllocPageStep DEF GetPage
  <2>3. wild' = wild
    BY <1>2, <1>3, <1>6, Zenon
  <2> HIDE DEF h
  <2>4. CASE PageFull(h, c)
    <3>1. heap' = h /\ live' = live
      BY <1>2, <1>3, <1>6, <2>4
    <3> QED
      BY <2>2, <2>3, <3>1 DEF MallocInv
  <2>5. CASE ~PageFull(h, c)
    <3>1. /\ heap' = AllocObj(h, c)
          /\ live' = live \union {<<Head(h.pages[h.class[c]].free), sz>>}
      BY <1>2, <1>3, <1>6, <2>5, Zenon
    <3>2. sz <= c * MinObj
      BY <1>4
    <3>3. HeapInv(heap') /\ LiveInv(heap'.pages, live')
      BY <1>1, <1>6, <2>2, <2>5, <3>1, <3>2, AllocObjStep, Zenon
    <3> QED
      BY <2>3, <3>3 DEF MallocInv
  <2> QED
    BY <2>4, <2>5
<1> QED
  BY <1>5, <1>6

LEMMA FreeStep ==
    ASSUME MallocInv, NEW o \in live, Free(o)
    PROVE  MallocInv'
<1>1. heap' = FreeObj(heap, o) /\ live' = live \ {o} /\ wild' = wild
  BY DEF Free, FreeObj
<1>2. HeapInv(heap) /\ LiveInv(heap.pages, live)
  BY DEF MallocInv
<1>3. HeapInv(heap') /\ LiveInv(heap'.pages, live')
  BY <1>1, <1>2, FreeObjStep
<1> QED
  BY <1>1, <1>3 DEF MallocInv

LEMMA MallocInvariant == Spec => []MallocInv
<1>1. MallocInv /\ [Next]_vars => MallocInv'
  <2> SUFFICES ASSUME MallocInv, [Next]_vars PROVE MallocInv'
    OBVIOUS
  <2>1. CASE UNCHANGED vars
    BY <2>1 DEF vars, MallocInv
  <2>2. CASE Next
    <3>1. CASE \E size \in Requests : Malloc(size)
      BY <3>1, MallocStep
    <3>2. CASE \E o \in live : Free(o)
      BY <3>2, FreeStep
    <3> QED
      BY <2>2, <3>1, <3>2 DEF Next
  <2> QED
    BY <2>1, <2>2
<1> QED
  BY InitStep, <1>1, PTL DEF Spec

(* Every block of a page is free once or held by the program, whatever the *)
(* sizes of blocks, pages and segments: malloc and free lose none and hand *)
(* none out twice, and remaining agrees with the free list.                *)
THEOREM BlocksKept == Spec => []BlocksConserved
<1>1. MallocInv => BlocksConserved
  <2> SUFFICES ASSUME MallocInv PROVE BlocksConserved
    OBVIOUS
  <2>1. DOMAIN heap.class = 0..(NumSizeClasses - 1)
    BY DEF MallocInv, HeapInv, Heap
  <2>2. \A c \in DOMAIN heap.class :
           heap.class[c] # NoPage => heap.pages[heap.class[c]].size = c * MinObj
    BY <2>1 DEF MallocInv, HeapInv
  <2>3. ASSUME NEW p \in PageIds
        PROVE  LET page == heap.pages[p]
                   held == {o[1] : o \in {x \in live : PageOf(x[1]) = p}}
               IN  /\ page.used + Len(page.free) = page.capacity
                   /\ IsInjective(page.free)
                   /\ Range(page.free) \intersect held = {}
                   /\ Range(page.free) \union held
                        = {PageObj(p) + (i - 1) * page.size : i \in 1..page.capacity}
    <3> DEFINE page == heap.pages[p]
               held == {o[1] : o \in {x \in live : PageOf(x[1]) = p}}
               blocks == {PageObj(p) + (i - 1) * page.size : i \in 1..page.capacity}
    <3>1. PageInv(p, page)
      BY DEF MallocInv, HeapInv
    <3>2. page.used + Len(page.free) = page.capacity /\ IsInjective(page.free)
      BY <3>1 DEF PageInv
    <3>3. \A y : y \in Range(page.free) <=> IsFree(page, y)
      <4>1. DOMAIN page.free = 1..Len(page.free)
        BY <3>1 DEF PageInv, Page
      <4> QED
        BY <4>1 DEF Range, IsFree
    <3>4. \A y \in held : y \in blocks /\ ~IsFree(page, y)
      <4> SUFFICES ASSUME NEW o \in live, PageOf(o[1]) = p
                   PROVE  o[1] \in blocks /\ ~IsFree(page, o[1])
        OBVIOUS
      <4>1. Placed(heap.pages, o)
        BY DEF MallocInv, LiveInv
      <4> QED
        BY <4>1 DEF Placed, Block
    <3>5. \A y : IsFree(page, y) => y \in blocks
      BY <3>1 DEF PageInv, IsFree, Block
    <3>6. \A y \in blocks : IsFree(page, y) \/ y \in held
      <4> SUFFICES ASSUME NEW i \in 1..page.capacity,
                          ~IsFree(page, Block(p, page, i))
                   PROVE  Block(p, page, i) \in held
        BY DEF Block
      <4>1. InUse(live, Block(p, page, i))
        BY DEF MallocInv, LiveInv
      <4>2. PICK o \in live : o[1] = Block(p, page, i)
        BY <4>1 DEF InUse
      <4>3. PageOf(o[1]) = p
        BY <3>1, <4>2, BlockPlace
      <4> QED
        BY <4>2, <4>3
    <3> HIDE DEF page, held, blocks
    <3>7. Range(page.free) \intersect held = {}
      BY <3>3, <3>4
    <3>8. Range(page.free) \union held = blocks
      BY <3>3, <3>4, <3>5, <3>6
    <3> QED
      BY <3>2, <3>7, <3>8, Zenon DEF page, held, blocks
  <2> QED
    BY <2>2, <2>3, Zenon DEF BlocksConserved
<1> QED
  BY MallocInvariant, <1>1, PTL

(* Two objects in use have no byte in common, and each is inside its       *)
(* segment and clear of the metadata.                                      *)
LEMMA PagesApart ==
    ASSUME NEW p \in PageIds, NEW q \in PageIds, p # q
    PROVE  \/ PageStart(p) + PageSize <= PageStart(q)
           \/ PageStart(q) + PageSize <= PageStart(p)
<1>1. /\ p[1] \in Nat /\ p[2] \in Nat /\ q[1] \in Nat /\ q[2] \in Nat
      /\ p = <<p[1], p[2]>> /\ q = <<q[1], q[2]>>
      /\ PageSize \in Nat /\ SegmentSize \in Nat
  BY PagePlace, Geometry
<1>2. ASSUME NEW a \in PageIds, NEW b \in PageIds, a[1] \in Nat, b[1] \in Nat,
             a[1] < b[1]
      PROVE  PageStart(a) + PageSize <= PageStart(b)
  <2> DEFINE x == a[1] * SegmentSize
             y == b[1] * SegmentSize
  <2>1. x \in Nat /\ y \in Nat /\ x + SegmentSize <= y
    BY <1>1, <1>2, TimesLess
  <2>2. /\ PageStart(a) \in Nat /\ PageStart(a) + PageSize <= x + SegmentSize
        /\ PageStart(b) \in Nat /\ y <= PageStart(b)
    <3>1. b[2] * PageSize \in Nat /\ PageStart(b) = y + b[2] * PageSize
      BY PagePlace, Geometry DEF PageStart
    <3>2. PageStart(a) \in Nat /\ PageStart(a) + PageSize <= x + SegmentSize
      BY PagePlace
    <3> HIDE DEF x, y
    <3> QED
      BY <2>1, <3>1, <3>2
  <2> HIDE DEF x, y
  <2> QED
    BY <1>1, <2>1, <2>2
<1>3. CASE p[1] # q[1]
  BY <1>1, <1>2, <1>3
<1>4. CASE p[1] = q[1]
  <2> DEFINE z == p[1] * SegmentSize
             x == p[2] * PageSize
             y == q[2] * PageSize
  <2>1. p[2] # q[2]
    BY <1>1, <1>4
  <2>2. x \in Nat /\ y \in Nat /\ z \in Nat /\ PageStart(p) = z + x /\ PageStart(q) = z + y
    BY <1>1, <1>4 DEF PageStart
  <2>3. p[2] < q[2] => x + PageSize <= y
    BY <1>1, TimesLess
  <2>4. q[2] < p[2] => y + PageSize <= x
    BY <1>1, TimesLess
  <2> HIDE DEF x, y, z
  <2> QED
    BY <1>1, <2>1, <2>2, <2>3, <2>4
<1> QED
  BY <1>3, <1>4

LEMMA DisjointFromInv == MallocInv => ObjectsDisjoint
<1> SUFFICES ASSUME MallocInv PROVE ObjectsDisjoint
  OBVIOUS
<1>1. ASSUME NEW o \in live
      PROVE  /\ o[1] \in Nat /\ o[2] \in Nat /\ o[2] <= SmallMax - MinObj
             /\ PageOf(o[1]) \in PageIds
             /\ PageInv(PageOf(o[1]), heap.pages[PageOf(o[1])])
             /\ o[2] <= heap.pages[PageOf(o[1])].size
             /\ PageObj(PageOf(o[1])) <= o[1]
             /\ o[1] + o[2] <= PageStart(PageOf(o[1])) + PageSize
             /\ o[1] % SegmentSize = o[1] - PageOf(o[1])[1] * SegmentSize
  <2> DEFINE p == PageOf(o[1])
             page == heap.pages[p]
  <2>1. Placed(heap.pages, o)
    BY DEF MallocInv, LiveInv
  <2>2. o[1] \in Nat /\ o[2] \in Nat /\ p \in PageIds /\ o[2] >= 1 /\ o[2] <= page.size
    BY <2>1 DEF Placed
  <2>3. PageInv(p, page)
    BY <2>2 DEF MallocInv, HeapInv
  <2>4. PICK i \in 1..page.capacity : o[1] = Block(p, page, i)
    BY <2>1 DEF Placed
  <2> HIDE DEF p
  <2> HIDE DEF page
  <2>5. page.size \in Nat /\ page.size <= SmallMax - MinObj
    BY <2>2, <2>3 DEF PageInv, Page
  <2>6. /\ PageObj(p) <= o[1] /\ o[1] + page.size <= PageStart(p) + PageSize
        /\ o[1] % SegmentSize = o[1] - p[1] * SegmentSize
    BY <2>2, <2>3, <2>4, BlockPlace
  <2>7. /\ PageStart(p) + PageSize \in Int /\ SmallMax - MinObj \in Int
    BY <2>2, PagePlace, Geometry
  <2>8. o[2] <= SmallMax - MinObj /\ o[1] + o[2] <= PageStart(p) + PageSize
    BY <2>2, <2>5, <2>6, <2>7
  <2> QED
    BY <2>2, <2>3, <2>6, <2>8 DEF page, p
<1>2. ASSUME NEW o \in live, NEW q \in live, o # q
      PROVE  o[1] + o[2] <= q[1] \/ q[1] + q[2] <= o[1]
  <2> DEFINE a == PageOf(o[1])
             b == PageOf(q[1])
  <2>1. /\ o[1] \in Nat /\ o[2] \in Nat /\ a \in PageIds
        /\ o[2] <= heap.pages[a].size /\ PageInv(a, heap.pages[a])
        /\ PageObj(a) <= o[1] /\ o[1] + o[2] <= PageStart(a) + PageSize
    BY <1>1
  <2>2. /\ q[1] \in Nat /\ q[2] \in Nat /\ b \in PageIds
        /\ q[2] <= heap.pages[b].size
        /\ PageObj(b) <= q[1] /\ q[1] + q[2] <= PageStart(b) + PageSize
    BY <1>1
  <2>3. o[1] # q[1]
    BY <1>2 DEF MallocInv, LiveInv
  <2>4. PICK i \in 1..heap.pages[a].capacity : o[1] = Block(a, heap.pages[a], i)
    BY DEF MallocInv, LiveInv, Placed
  <2>5. PICK j \in 1..heap.pages[b].capacity : q[1] = Block(b, heap.pages[b], j)
    BY DEF MallocInv, LiveInv, Placed
  <2> HIDE DEF a, b
  <2>6. CASE a = b
    <3> DEFINE page == heap.pages[a]
    <3>1. /\ page.size \in Nat /\ i \in Int /\ j \in Int
      BY <2>1, <2>4, <2>5, <2>6 DEF PageInv, Page
    <3>2. j \in 1..page.capacity /\ q[1] = Block(a, page, j) /\ q[2] <= page.size
      BY <2>2, <2>5, <2>6
    <3>3. i < j => o[1] + page.size <= q[1]
      BY <2>1, <2>4, <3>2, BlocksApart
    <3>4. j < i => q[1] + page.size <= o[1]
      BY <2>1, <2>4, <3>2, BlocksApart
    <3>5. i # j
      BY <2>3, <2>4, <3>2
    <3> HIDE DEF page
    <3>6. o[2] <= page.size
      BY <2>1 DEF page
    <3> QED
      BY <2>1, <2>2, <3>1, <3>2, <3>3, <3>4, <3>5, <3>6
  <2>7. CASE a # b
    <3>1. \/ PageStart(a) + PageSize <= PageStart(b)
          \/ PageStart(b) + PageSize <= PageStart(a)
      BY <2>1, <2>2, <2>7, PagesApart
    <3>2. /\ PageStart(a) \in Nat /\ PageStart(b) \in Nat /\ PageSize \in Nat
          /\ PageObj(a) \in Nat /\ PageObj(b) \in Nat
          /\ PageStart(a) <= PageObj(a) /\ PageStart(b) <= PageObj(b)
      BY <2>1, <2>2, PagePlace, Geometry
    <3> QED
      BY <2>1, <2>2, <3>1, <3>2
  <2> QED
    BY <2>6, <2>7
<1>3. ASSUME NEW o \in live
      PROVE  /\ o[1] % SegmentSize >= MetaSize
             /\ (o[1] % SegmentSize) + o[2] <= SegmentSize
             /\ o[2] <= SmallMax - MinObj
  <2> DEFINE p == PageOf(o[1])
             x == p[1] * SegmentSize
  <2>1. /\ o[1] \in Nat /\ o[2] \in Nat /\ o[2] <= SmallMax - MinObj /\ p \in PageIds
        /\ PageObj(p) <= o[1] /\ o[1] + o[2] <= PageStart(p) + PageSize
        /\ o[1] % SegmentSize = o[1] - x
    BY <1>1
  <2> HIDE DEF p
  <2>2. /\ PageObj(p) \in Nat /\ PageStart(p) \in Nat /\ x \in Nat
        /\ x + MetaSize <= PageObj(p)
        /\ PageStart(p) + PageSize <= x + SegmentSize
    BY <2>1, PagePlace
  <2> HIDE DEF x
  <2> QED
    BY <2>1, <2>2, Geometry
<1> QED
  BY <1>2, <1>3 DEF ObjectsDisjoint, MallocInv

(* Whatever the sizes, no two objects malloc has handed out overlap, none  *)
(* lies on segment metadata or past its segment, and heap->pages is only   *)
(* indexed past its end for sizes within MIN_OBJ_SIZE of the limit.        *)
THEOREM NoOverlap == Spec => []ObjectsDisjoint
  BY MallocInvariant, DisjointFromInv, PTL
-----------------------------------------------------------------------------
Obj(o) == [base |-> o[1], size |-> o[2]]

LEMMA ObjFields ==
    ASSUME NEW o
    PROVE  Obj(o).base = o[1] /\ Obj(o).size = o[2]
  BY DEF Obj

LEMMA LiveIsPair ==
    ASSUME MallocInv, NEW o \in live
    PROVE  o[1] \in Nat /\ o[2] \in Nat \ {0} /\ o = <<o[1], o[2]>>
<1>1. o \in Nat \X Nat /\ o[2] >= 1
  BY DEF MallocInv, LiveInv, Placed
<1> QED
  BY <1>1

(* The block malloc takes, the first free one of the page of the class, is *)
(* no object in use.                                                       *)
LEMMA HeadNotInUse ==
    ASSUME NEW h, NEW lv, HeapInv(h), LiveInv(h.pages, lv), NEW c \in Classes,
           ~PageFull(h, c)
    PROVE  \A o \in lv : o[1] # Head(h.pages[h.class[c]].free)
<1> DEFINE p == h.class[c]
           x == Head(h.pages[p].free)
<1>1. p \in PageIds /\ h.pages[p].free # << >>
  BY Zenon DEF PageFull, HeapInv, Heap, Classes
<1>2. PageInv(p, h.pages[p])
  BY <1>1 DEF HeapInv
<1> HIDE DEF p
<1>3. IsFree(h.pages[p], x) /\ \E i \in 1..h.pages[p].capacity : x = Block(p, h.pages[p], i)
  BY <1>1, <1>2, TakenPage
<1>4. PageOf(x) = p
  BY <1>1, <1>2, <1>3, BlockPlace
<1> HIDE DEF x
<1>5. \A o \in lv : ~IsFree(h.pages[PageOf(o[1])], o[1])
  BY DEF LiveInv, Placed
<1>6. \A o \in lv : o[1] # x
  BY <1>3, <1>4, <1>5
<1> QED
  BY <1>6 DEF x, p

(* A malloc that returns an object adds one to those in use; one that      *)
(* does not leaves them alone.                                             *)
LEMMA MallocAdds ==
    ASSUME MallocInv, NEW size \in Requests, Malloc(size)
    PROVE  /\ live' = live \/ \E o : o \notin live /\ live' = live \union {o}
           /\ Served(size) => \E o : o \notin live /\ live' = live \union {o}
<1> DEFINE sz == IF size = 0 THEN MinObj ELSE size
           bs == ToBlockSize(sz)
           c  == ToSizeClass(sz)
           h  == GetPage(heap, bs, c)
<1>1. sz \in Nat /\ sz >= 1
  BY SizesAssumption, Geometry
<1>2. /\ Served(size) <=> c \in DOMAIN heap.class /\ ~PageFull(h, c)
      /\ ~Served(size) => live' = live
      /\ Served(size) => live' = live \union {<<Head(h.pages[h.class[c]].free), sz>>}
  BY Zenon DEF Malloc, Served
<1>3. DOMAIN heap.class = Classes
  BY DEF MallocInv, HeapInv, Heap, Classes
<1> HIDE DEF sz
<1>4. bs = c * MinObj /\ bs \in Nat \ {0} /\ (c \in Classes => bs <= SmallMax - MinObj)
  BY <1>1, SizeClasses DEF Classes
<1> HIDE DEF bs, c
<1>5. ASSUME Served(size) PROVE \E o : o \notin live /\ live' = live \union {o}
  <2>1. c \in Classes /\ ~PageFull(h, c)
    BY <1>2, <1>3, <1>5
  <2>2. HeapInv(heap) /\ LiveInv(heap.pages, live)
    BY DEF MallocInv
  <2>3. HeapInv(h) /\ LiveInv(h.pages, live)
    BY <1>4, <2>1, <2>2, AllocPageStep DEF GetPage
  <2> HIDE DEF h
  <2> DEFINE x == Head(h.pages[h.class[c]].free)
  <2>4. \A o \in live : o[1] # x
    BY <2>1, <2>3, HeadNotInUse
  <2>5. live' = live \union {<<x, sz>>}
    BY <1>2, <1>5
  <2> HIDE DEF x
  <2>6. <<x, sz>>[1] = x
    OBVIOUS
  <2> QED
    BY <2>4, <2>5, <2>6, Zenon
<1> QED
  BY <1>2, <1>5, Zenon

(* An object malloc has added to those in use is clear of all the others.  *)
LEMMA MallocTakes ==
    ASSUME MallocInv', ObjectsDisjoint', NEW o, o \notin live, live' = live \union {o}
    PROVE  ObjectAllocator!Take
<1>1. Held' = Held \union {Obj(o)}
  BY DEF Held, Obj
<1>2. o \in live'
  OBVIOUS
<1>3. o[1] \in Nat /\ o[2] \in Nat \ {0}
  <2>1. o \in Nat \X Nat /\ o[2] >= 1
    BY <1>2 DEF MallocInv, LiveInv, Placed
  <2> QED
    BY <2>1
<1>4. ASSUME NEW s \in Held PROVE ObjectAllocator!Clear(Obj(o), s)
  <2>1. PICK q \in live : s = Obj(q)
    BY DEF Held, Obj
  <2>2. o[1] + o[2] <= q[1] \/ q[1] + q[2] <= o[1]
    BY <1>2 DEF ObjectsDisjoint
  <2> QED
    BY <2>1, <2>2, ObjFields, Zenon DEF ObjectAllocator!Clear
<1>5. Obj(o).base \in Nat /\ Obj(o).size \in Nat \ {0} /\ Obj(o) \in Held'
  BY <1>1, <1>3, ObjFields
<1> QED
  BY <1>1, <1>4, <1>5, Zenon DEF ObjectAllocator!Take

(* free gives back its object and no other.                                *)
LEMMA FreeGivesBack ==
    ASSUME MallocInv, NEW o \in live, live' = live \ {o}
    PROVE  ObjectAllocator!GiveBack
<1>1. \A q \in live : Obj(q) = Obj(o) => q = o
  <2> TAKE q \in live
  <2> HAVE Obj(q) = Obj(o)
  <2>1. q[1] = o[1] /\ q[2] = o[2]
    BY DEF Obj
  <2>2. q = <<q[1], q[2]>> /\ o = <<o[1], o[2]>>
    BY LiveIsPair
  <2> QED
    BY <2>1, <2>2, Zenon
<1>2. /\ \A s : s \in Held <=> \E q \in live : s = Obj(q)
      /\ \A s : s \in Held' <=> \E q \in live' : s = Obj(q)
  BY DEF Held, Obj
<1>3. \A s : s \in Held' <=> s \in Held /\ s # Obj(o)
  BY <1>1, <1>2, Zenon
<1>4. Held' = Held \ {Obj(o)} /\ Obj(o) \in Held
  BY <1>2, <1>3, Zenon
<1> QED
  BY <1>4, Zenon DEF ObjectAllocator!GiveBack

(* malloc and free, with their size classes, pages and segments, are an    *)
(* abstract allocator of the bytes the program asks for: a malloc that     *)
(* returns an object takes bytes clear of every object in use, free gives  *)
(* back one of them, and nothing else changes them, for every page and     *)
(* segment size and every sequence of requests.                            *)
THEOREM MallocImplementsAllocator == Spec => ImplementsAllocator
<1>1. Init => ObjectAllocator!AllocatorInit
  BY DEF Init, Held, ObjectAllocator!AllocatorInit
<1>2. /\ MallocInv /\ MallocInv' /\ ObjectsDisjoint' /\ [Next]_vars
      => [ObjectAllocator!AllocatorNext]_Held
  <2> SUFFICES ASSUME MallocInv, MallocInv', ObjectsDisjoint', [Next]_vars
               PROVE  ObjectAllocator!Take \/ ObjectAllocator!GiveBack \/ UNCHANGED Held
    BY DEF ObjectAllocator!AllocatorNext
  <2>1. CASE UNCHANGED vars
    BY <2>1 DEF vars, Held
  <2>2. ASSUME NEW size \in Requests, Malloc(size)
        PROVE  ObjectAllocator!Take \/ UNCHANGED Held
    <3>1. live' = live \/ \E o : o \notin live /\ live' = live \union {o}
      BY <2>2, MallocAdds, Zenon
    <3>2. live' = live => UNCHANGED Held
      BY DEF Held
    <3> QED
      BY <3>1, <3>2, MallocTakes, Zenon
  <2>3. ASSUME NEW o \in live, Free(o) PROVE ObjectAllocator!GiveBack
    BY <2>3, FreeGivesBack, Zenon DEF Free
  <2> QED
    BY <2>1, <2>2, <2>3 DEF Next
<1>3. MallocInv /\ MallocInv' /\ ObjectsDisjoint'
      => [\A size \in Requests : Malloc(size) /\ Served(size) => ObjectAllocator!Take]_vars
  <2> SUFFICES ASSUME MallocInv, MallocInv', ObjectsDisjoint',
                      NEW size \in Requests, Malloc(size), Served(size)
               PROVE  ObjectAllocator!Take
    BY Zenon
  <2>1. \E o : o \notin live /\ live' = live \union {o}
    BY MallocAdds, Zenon
  <2> QED
    BY <2>1, MallocTakes, Zenon
<1> QED
  BY <1>1, <1>2, <1>3, MallocInvariant, NoOverlap, PTL
     DEF Spec, ImplementsAllocator, ObjectAllocator!AllocatorSpec
=============================================================================
