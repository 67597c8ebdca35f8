--------------------------- MODULE VMSpace_proofs ---------------------------
(***************************************************************************)
(* For every image, layout and sequence of calls, the regions of an        *)
(* address space stay apart, what is populated is mapped, and no two       *)
(* virtual pages share a physical one.                                     *)
(***************************************************************************)
EXTENDS VMSpace, TLAPS

Tables == UNION {[D -> Nat] : D \in SUBSET Nat}
Regions == [start : Nat, end : Nat, populated : BOOLEAN]
Errors == {"ok", "ENOMEM", "EINVAL"}

VM == [regions : SUBSET Regions, last : Nat, ptes : Tables, pdes : Tables,
       dirs : SUBSET Nat, tables : SUBSET Nat, page : Tables,
       freed : SUBSET Nat, nextSmall : 1..(NSmall + 1),
       nextLarge : 1..(NLarge + 1), err : Errors]

(* What the page tables of m say of a virtual page.                        *)
Block(v) == v \div LargePages
IsMapped(m, v) == v \in DOMAIN m.ptes \/ Block(v) \in DOMAIN m.pdes
Frame(m, v) ==
    IF Block(v) \in DOMAIN m.pdes
    THEN AlignDown(m.pdes[Block(v)], LargePages) + (v % LargePages)
    ELSE m.ptes[v]

(* A block of LargePages pages is under a page table or a large page.      *)
Structured(m) ==
    /\ \A v \in DOMAIN m.ptes : Block(v) \in m.tables
    /\ \A k \in m.tables : k \notin DOMAIN m.pdes

(* Frames the page allocator has given out, and the driver's page.         *)
Given(m, f) == \/ f = RxFrame
               \/ f \in 1..(m.nextSmall - 1)
               \/ LargeFrame(1) <= f /\ f < LargeFrame(m.nextLarge)

FramesGiven(m) ==
    \A v \in Nat : IsMapped(m, v) => Frame(m, v) \in Nat /\ Given(m, Frame(m, v))

OneToOne(m) ==
    \A v, w \in Nat :
        IsMapped(m, v) /\ IsMapped(m, w) /\ Frame(m, v) = Frame(m, w) => v = w

Sound(m) == m \in VM /\ Structured(m) /\ FramesGiven(m) /\ OneToOne(m)

Within(r, v) == r.start <= v /\ v < r.end

RegionsApart(m) ==
    /\ \A r \in m.regions : r.start <= r.end /\ (r.start = r.end => ~r.populated)
    /\ \A q, r \in m.regions : q # r => Apart(q, r) /\ q.start # r.start

PopulatedMapped(m) ==
    \A r \in m.regions : r.populated =>
        \A v \in Nat : Within(r, v) => IsMapped(m, v)

(* Nothing is mapped outside the regions.                                  *)
Owned(m) ==
    /\ \A v \in Nat : IsMapped(m, v) => \E r \in m.regions : Within(r, v)
    /\ \A k \in m.tables : \E v \in Nat : Block(v) = k /\ \E r \in m.regions : Within(r, v)

RxUnused(m) == \A v \in Nat : IsMapped(m, v) => Frame(m, v) # RxFrame

IsArea(r, a) == r.start = a.start /\ r.end = a.end

(* The regions process_spawn has made so far.                              *)
SegmentRegion(i) == Region(Segments[i].start, Segments[i].end, TRUE)

SpawnProgress ==
    /\ stage = "segments" =>
         /\ loaded \in 0..Len(Segments)
         /\ vm.regions = {SegmentRegion(i) : i \in 1..loaded}
    /\ stage = "events" =>
         \A r \in vm.regions : \/ IsArea(r, Stack)
                               \/ \E i \in 1..Len(Segments) : IsArea(r, Segments[i])

(* The inductive invariant.                                                *)
VMInv ==
    /\ Sound(vm) /\ RegionsApart(vm) /\ PopulatedMapped(vm)
    /\ stage \in {"segments", "events", "running", "acquired", "panicked", "no process"}
    /\ stage # "no process" => Owned(vm)
    /\ stage \in {"segments", "events", "running"} => RxUnused(vm)
    /\ \A r \in vm.regions :
          r.end <= MaxAddr + (IF stage = "acquired" THEN 2 ELSE 0)
    /\ SpawnProgress

-----------------------------------------------------------------------------
(* A set of naturals that is not empty has a least element: the lemmas     *)
(* about loops and about UpperEnd take this as a hypothesis, which is      *)
(* proved below, LeastNatural, just before the invariant.                  *)
LeastNumber == \A T \in SUBSET Nat : T # {} => \E x \in T : \A y \in T : x <= y

(* Division, and rounding to a multiple.                                   *)
LEMMA DivMod ==
    ASSUME NEW v \in Nat, NEW a \in Nat \ {0}
    PROVE  /\ v % a \in 0..(a - 1) /\ v \div a \in Nat
           /\ v = (v \div a) * a + (v % a)
<1>1. v = (v \div a) * a + (v % a)
  BY SMT
<1>2. v % a \in 0..(a - 1)
  BY SMT
<1>3. v \div a \in Nat
  BY SMT
<1> QED
  BY <1>1, <1>2, <1>3

LEMMA TimesNat ==
    ASSUME NEW a \in Nat, NEW b \in Nat
    PROVE  a * b \in Nat
  OBVIOUS

LEMMA TimesLess ==
    ASSUME NEW a \in Nat, NEW b \in Nat, NEW n \in Nat, a < b
    PROVE  a * n \in Nat /\ b * n \in Nat /\ a * n + n <= b * n
<1>1. a * n \in Nat /\ b * n \in Nat
  OBVIOUS
<1>2. (b - a) * n = b * n - a * n /\ (b - a - 1) * n \in Nat
  OBVIOUS
<1>3. (b - a - 1) * n = (b - a) * n - n
  OBVIOUS
<1> QED
  BY <1>1, <1>2, <1>3

LEMMA DivUnique ==
    ASSUME NEW v \in Nat, NEW a \in Nat \ {0}, NEW q \in Nat,
           q * a <= v, v < q * a + a
    PROVE  v \div a = q /\ v % a = v - q * a
<1> DEFINE d == v \div a
           r == v % a
<1>1. d \in Nat /\ r \in 0..(a - 1) /\ v = d * a + r
  BY DivMod, Zenon
<1> HIDE DEF d, r
<1>2. ~(d < q)
  BY <1>1, TimesLess
<1>3. ~(q < d)
  BY <1>1, TimesLess
<1>4. d = q
  BY <1>1, <1>2, <1>3
<1> QED
  BY <1>1, <1>4 DEF d, r

LEMMA AlignDownFacts ==
    ASSUME NEW v \in Nat, NEW a \in Nat \ {0}
    PROVE  /\ AlignDown(v, a) \in Nat
           /\ AlignDown(v, a) = (v \div a) * a
           /\ AlignDown(v, a) <= v /\ v < AlignDown(v, a) + a
           /\ v % a = 0 => AlignDown(v, a) = v
<1> DEFINE d == v \div a
           r == v % a
<1>1. d \in Nat /\ r \in 0..(a - 1) /\ v = d * a + r
  BY DivMod, Zenon
<1>2. AlignDown(v, a) = v - r
  BY DEF AlignDown
<1> HIDE DEF d, r
<1>3. d * a \in Nat
  BY <1>1, TimesNat
<1> QED
  BY <1>1, <1>2, <1>3 DEF d, r

LEMMA AlignUpFacts ==
    ASSUME NEW v \in Nat, NEW a \in Nat \ {0}
    PROVE  /\ AlignUp(v, a) \in Nat
           /\ \E k \in Nat : AlignUp(v, a) = k * a
           /\ v <= AlignUp(v, a) /\ AlignUp(v, a) < v + a
<1> DEFINE u == v + a - 1
<1>1. u \in Nat
  OBVIOUS
<1>2. u \div a \in Nat
  BY <1>1, DivMod
<1>3. /\ AlignDown(u, a) \in Nat /\ AlignDown(u, a) = (u \div a) * a
      /\ AlignDown(u, a) <= u /\ u < AlignDown(u, a) + a
  BY <1>1, AlignDownFacts, Zenon
<1>4. AlignUp(v, a) = AlignDown(u, a)
  BY DEF AlignUp
<1>5. \E k \in Nat : AlignUp(v, a) = k * a
  BY <1>2, <1>3, <1>4, Zenon
<1> DEFINE x == AlignDown(u, a)
<1> HIDE DEF x
<1>6. x \in Nat /\ x <= v + a - 1 /\ v + a - 1 < x + a
  BY <1>3 DEF x
<1>7. v <= x /\ x < v + a
  BY <1>6
<1> QED
  BY <1>4, <1>5, <1>6, <1>7 DEF x

LEMMA Consts ==
    /\ LargePages \in Nat /\ LargePages > 1 /\ DirPages \in Nat \ {0}
    /\ LargePages \in Nat \ {0} /\ NSmall \in Nat /\ NLarge \in Nat
    /\ MaxAddr \in Nat
  BY VMAssumption

LEMMA BlockFacts ==
    ASSUME NEW v \in Nat
    PROVE  /\ Block(v) \in Nat /\ v % LargePages \in 0..(LargePages - 1)
           /\ Block(v) * LargePages \in Nat
           /\ v = Block(v) * LargePages + (v % LargePages)
<1>1. /\ Block(v) \in Nat /\ v % LargePages \in 0..(LargePages - 1)
      /\ v = Block(v) * LargePages + (v % LargePages)
  BY Consts, DivMod, Zenon DEF Block
<1>2. Block(v) * LargePages \in Nat
  BY <1>1, Consts, TimesNat
<1> QED
  BY <1>1, <1>2

(* Page tables as functions.                                               *)
LEMMA TablesType ==
    ASSUME NEW f \in Tables
    PROVE  /\ DOMAIN f \subseteq Nat
           /\ \A x \in DOMAIN f : f[x] \in Nat
<1>1. PICK D \in SUBSET Nat : f \in [D -> Nat]
  BY DEF Tables
<1> QED
  BY <1>1

LEMMA UpdateTable ==
    ASSUME NEW f \in Tables, NEW x \in Nat, NEW y \in Nat
    PROVE  /\ Update(f, x, y) \in Tables
           /\ DOMAIN Update(f, x, y) = DOMAIN f \union {x}
           /\ Update(f, x, y)[x] = y
           /\ \A z \in DOMAIN f : z # x => Update(f, x, y)[z] = f[z]
<1>1. DOMAIN f \subseteq Nat /\ \A z \in DOMAIN f : f[z] \in Nat
  BY TablesType
<1> DEFINE D == DOMAIN f \union {x}
<1>2. D \in SUBSET Nat /\ Update(f, x, y) \in [D -> Nat]
  BY <1>1 DEF Update
<1>3. Update(f, x, y) \in Tables
  BY <1>2 DEF Tables
<1> QED
  BY <1>3 DEF Update

Updated(g, f, x, y) ==
    /\ DOMAIN g = DOMAIN f \union {x}
    /\ g[x] = y
    /\ \A z \in DOMAIN f : z # x => g[z] = f[z]

LEMMA EmptyTable == Empty \in Tables /\ DOMAIN Empty = {}
<1>1. {} \in SUBSET Nat /\ Empty \in [{} -> Nat]
  BY DEF Empty
<1> QED
  BY <1>1, Zenon DEF Tables, Empty

-----------------------------------------------------------------------------
(* The fields of the address space after the steps of a mapping.           *)
Kept(m, w) ==
    /\ w.regions = m.regions /\ w.last = m.last /\ w.page = m.page
    /\ w.freed = m.freed /\ w.nextLarge = m.nextLarge
    /\ m.nextSmall <= w.nextSmall

SetErr(m, e) == [m EXCEPT !.err = e]

LEMMA ErrFields ==
    ASSUME NEW m \in VM, NEW e \in Errors
    PROVE  /\ SetErr(m, e) \in VM /\ SetErr(m, e).err = e
           /\ SetErr(m, e).regions = m.regions /\ SetErr(m, e).last = m.last
           /\ SetErr(m, e).ptes = m.ptes /\ SetErr(m, e).pdes = m.pdes
           /\ SetErr(m, e).dirs = m.dirs /\ SetErr(m, e).tables = m.tables
           /\ SetErr(m, e).page = m.page /\ SetErr(m, e).freed = m.freed
           /\ SetErr(m, e).nextSmall = m.nextSmall
           /\ SetErr(m, e).nextLarge = m.nextLarge
  BY DEF SetErr, VM

LEMMA TakeSmallFields ==
    ASSUME NEW m \in VM, ~NoSmall(m)
    PROVE  LET w == TakeSmall(m)
           IN  /\ w \in VM /\ w.err = m.err
               /\ w.regions = m.regions /\ w.last = m.last
               /\ w.ptes = m.ptes /\ w.pdes = m.pdes
               /\ w.dirs = m.dirs /\ w.tables = m.tables
               /\ w.page = m.page /\ w.freed = m.freed
               /\ w.nextSmall = m.nextSmall + 1
               /\ w.nextLarge = m.nextLarge
<1>1. m.nextSmall + 1 \in 1..(NSmall + 1)
  BY Consts DEF NoSmall, VM
<1> QED
  BY <1>1 DEF TakeSmall, VM

-----------------------------------------------------------------------------
(* mmu_map_range on pages that are not mapped: what holds before it, and   *)
(* what holds after each page it maps.                                     *)
Whole(k, start, end) == start <= k * LargePages /\ k * LargePages + LargePages <= end

MapPre(m, start, end, frame) ==
    /\ m \in VM /\ m.err = "ok" /\ Structured(m)
    /\ start \in Nat /\ end \in Nat /\ frame \in Nat
    /\ \/ end = start + 1
       \/ end = start + LargePages /\ frame % LargePages = 0
    /\ \A v \in start..(end - 1) : ~IsMapped(m, v)
    /\ \A k \in m.tables : ~Whole(k, start, end)

MapMid(m, w, start, end, frame) ==
    /\ w \in VM /\ Kept(m, w) /\ Structured(w) /\ w.err \in {"ok", "ENOMEM"}
    /\ \A v \in Nat : IsMapped(m, v) => IsMapped(w, v) /\ Frame(w, v) = Frame(m, v)
    /\ \A v \in Nat : IsMapped(w, v) =>
          \/ IsMapped(m, v)
          \/ v \in start..(end - 1) /\ Frame(w, v) = frame + (v - start)
    /\ \A k \in DOMAIN w.pdes : k \in DOMAIN m.pdes \/ Whole(k, start, end)
    /\ \A k \in w.tables : /\ ~Whole(k, start, end)
                           /\ \/ k \in m.tables
                              \/ \E v \in start..(end - 1) : Block(v) = k

-----------------------------------------------------------------------------
(* The pages mmu_map_range maps: each inside the range, large ones aligned *)
(* and small ones not part of a large page inside it, and together all of  *)
(* the range.                                                              *)
Chunk == [at : Nat, large : BOOLEAN]
InSeq(s, c) == \E k \in 1..Len(s) : s[k] = c

ChunkOK(c, start, end) ==
    /\ start <= c.at
    /\ c.large => c.at % LargePages = 0 /\ c.at + LargePages <= end
    /\ ~c.large => c.at < end /\ ~Whole(Block(c.at), start, end)

Covers(c, v) == c.at <= v /\ v < c.at + (IF c.large THEN LargePages ELSE 1)

LEMMA ChunksAre ==
    \A start, end \in Nat :
        start < end =>
        LET cs == Chunks(start, end)
        IN  /\ cs \in Seq(Chunk)
            /\ \A k \in 1..Len(cs) : cs[k] \in Chunk /\ ChunkOK(cs[k], start, end)
            /\ \A v \in start..(end - 1) : \E k \in 1..Len(cs) : Covers(cs[k], v)
<1>ConcatIn. ASSUME NEW s \in Seq(Chunk), NEW t \in Seq(Chunk)
             PROVE  /\ s \o t \in Seq(Chunk)
                    /\ \A c : InSeq(s \o t, c) <=> InSeq(s, c) \/ InSeq(t, c)
  <2> USE <1>ConcatIn
  <2> DEFINE u == s \o t
  <2>1. /\ Len(s) \in Nat /\ Len(t) \in Nat /\ u \in Seq(Chunk) /\ Len(u) = Len(s) + Len(t)
        /\ \A k \in 1..Len(u) : u[k] = IF k <= Len(s) THEN s[k] ELSE t[k - Len(s)]
    OBVIOUS
  <2> HIDE DEF u
  <2>2. \A k \in 1..Len(s) : k \in 1..Len(u) /\ u[k] = s[k]
    BY <2>1
  <2>3. \A k \in 1..Len(t) : k + Len(s) \in 1..Len(u) /\ u[k + Len(s)] = t[k]
    <3> TAKE k \in 1..Len(t)
    <3>1. k + Len(s) \in 1..Len(u) /\ ~(k + Len(s) <= Len(s)) /\ (k + Len(s)) - Len(s) = k
      BY <2>1
    <3>2. u[k + Len(s)] = t[(k + Len(s)) - Len(s)]
      BY <2>1, <3>1
    <3> QED
      BY <3>1, <3>2
  <2>4. \A k \in 1..Len(u) : \/ k \in 1..Len(s) /\ u[k] = s[k]
                             \/ k - Len(s) \in 1..Len(t) /\ u[k] = t[k - Len(s)]
    BY <2>1
  <2>5. \A c : InSeq(s, c) => InSeq(u, c)
    BY <2>2 DEF InSeq
  <2>6. \A c : InSeq(t, c) => InSeq(u, c)
    BY <2>3 DEF InSeq
  <2>7. \A c : InSeq(u, c) => InSeq(s, c) \/ InSeq(t, c)
    BY <2>4 DEF InSeq
  <2> QED
    BY <2>1, <2>5, <2>6, <2>7 DEF u
<1>SmallChunksAre. ASSUME NEW from \in Nat, NEW to \in Nat, from <= to
                   PROVE  LET s == SmallChunks(from, to)
                          IN  /\ s \in Seq(Chunk)
                              /\ \A c : InSeq(s, c) => c \in Chunk /\ ~c.large /\ from <= c.at /\ c.at < to
                              /\ \A v \in from..(to - 1) : \E c \in Chunk : InSeq(s, c) /\ Covers(c, v)
  <2> USE <1>SmallChunksAre
  <2> DEFINE s == SmallChunks(from, to)
             n == to - from
  <2>1. n \in Nat /\ \A i \in 1..n : from + i - 1 \in Nat
    OBVIOUS
  <2>2. \A i \in 1..n : [at |-> from + i - 1, large |-> FALSE] \in Chunk
    BY <2>1 DEF Chunk
  <2>3. s \in Seq(Chunk) /\ Len(s) = n
    BY <2>1, <2>2 DEF SmallChunks
  <2>4. \A i \in 1..n : s[i] = [at |-> from + i - 1, large |-> FALSE]
    BY DEF SmallChunks
  <2> SUFFICES /\ s \in Seq(Chunk)
               /\ \A c : InSeq(s, c) => c \in Chunk /\ ~c.large /\ from <= c.at /\ c.at < to
               /\ \A v \in from..(to - 1) : \E c \in Chunk : InSeq(s, c) /\ Covers(c, v)
    OBVIOUS
  <2> HIDE DEF s, n
  <2>5. \A i \in 1..n : s[i] \in Chunk /\ s[i].at = from + i - 1 /\ ~s[i].large
    <3> TAKE i \in 1..n
    <3>1. s[i] = [at |-> from + i - 1, large |-> FALSE]
      BY <2>4
    <3>2. s[i] \in Chunk
      BY <3>1, <2>2
    <3> QED
      BY <3>1, <3>2
  <2> USE DEF n
  <2>6. \A i \in 1..n : from <= s[i].at /\ s[i].at < to
    BY <2>1, <2>5
  <2>7. \A c : InSeq(s, c) => c \in Chunk /\ ~c.large /\ from <= c.at /\ c.at < to
    BY <2>3, <2>5, <2>6 DEF InSeq
  <2>8. \A v \in from..(to - 1) : \E c \in Chunk : InSeq(s, c) /\ Covers(c, v)
    <3> TAKE v \in from..(to - 1)
    <3>1. v - from + 1 \in 1..n /\ from + (v - from + 1) - 1 = v
      BY <2>1
    <3> DEFINE c == s[v - from + 1]
    <3>2. c \in Chunk /\ c.at = v /\ ~c.large /\ InSeq(s, c)
      BY <2>3, <2>5, <3>1 DEF InSeq
    <3> HIDE DEF c
    <3>3. Covers(c, v)
      BY <3>2 DEF Covers
    <3> QED
      BY <3>2, <3>3
  <2> QED
    BY <2>3, <2>7, <2>8 DEF s
<1>LargeChunksAre. ASSUME NEW i \in Nat, NEW j \in Nat, NEW from \in Nat, NEW to \in Nat,
                          from = i * LargePages, to = j * LargePages, from <= to
                   PROVE  LET s == LargeChunks(from, to)
                          IN  /\ s \in Seq(Chunk)
                              /\ \A c : InSeq(s, c) => /\ c \in Chunk /\ c.large /\ from <= c.at
                                                       /\ c.at + LargePages <= to
                                                       /\ c.at % LargePages = 0
                              /\ \A v \in from..(to - 1) : \E c \in Chunk : InSeq(s, c) /\ Covers(c, v)
  <2> USE <1>LargeChunksAre
  <2> DEFINE L == LargePages
             n == (to - from) \div L
             s == LargeChunks(from, to)
             place(k) == from + (k - 1) * L
  <2>1. L \in Nat \ {0} /\ to - from \in Nat
    BY Consts
  <2>2. i <= j
    BY <2>1, TimesLess
  <2>3. n = j - i
    <3>1. (j - i) * L = to - from
      BY <2>1
    <3>2. j - i \in Nat
      BY <2>2
    <3> DEFINE q == j - i
               x == to - from
    <3> HIDE DEF q, x
    <3>3. L \in Nat \ {0} /\ q \in Nat /\ x \in Nat /\ q * L = x
      BY <2>1, <3>1, <3>2 DEF q, x
    <3>4. q * L <= x /\ x < q * L + L
      BY <3>3
    <3>5. x \div L = q
      BY ONLY <3>3, <3>4, DivUnique
    <3> QED
      BY <3>5 DEF q, x
  <2>4. n \in Nat
    BY <2>2, <2>3
  <2>5. s = [k \in 1..n |-> [at |-> place(k), large |-> TRUE]]
    BY DEF LargeChunks
  <2> HIDE DEF n, s, L
  <2>6. \A k \in 1..n : /\ place(k) \in Nat /\ from <= place(k)
                        /\ place(k) + L <= to /\ place(k) % L = 0
    <3> TAKE k \in 1..n
    <3> DEFINE q == i + (k - 1)
               a == place(k)
    <3>1. q \in Nat /\ q < j /\ k - 1 \in Nat
      BY <2>2, <2>3, <2>4
    <3>2. q * L \in Nat /\ q * L + L <= j * L
      BY <2>1, <3>1, TimesLess
    <3>3. (k - 1) * L \in Nat
      BY <2>1, <3>1, TimesNat
    <3>4. a = q * L
      BY <2>1, <3>1 DEF L
    <3> HIDE DEF q, a
    <3>5. a \in Nat /\ a + L <= to
      BY <3>2, <3>4 DEF L
    <3>6. from <= a
      BY <3>3 DEF a
    <3>7. a % L = 0
      <4>1. q * L <= a /\ a < q * L + L
        BY <2>1, <3>4, <3>5
      <4>2. a % L = a - q * L
        BY <2>1, <3>1, <3>5, <4>1, DivUnique, Zenon
      <4> QED
        BY <4>2, <3>4, <3>5
    <3> QED
      BY <3>5, <3>6, <3>7 DEF a
  <2> HIDE DEF place
  <2>7. \A k \in 1..n : [at |-> place(k), large |-> TRUE] \in Chunk
    BY ONLY <2>6 DEF Chunk
  <2>8. s \in Seq(Chunk) /\ Len(s) = n
    BY ONLY <2>4, <2>5, <2>7
  <2>9. \A k \in 1..n : s[k] \in Chunk /\ s[k].large /\ s[k].at = place(k)
    BY ONLY <2>5, <2>7
  <2>10. \A c : InSeq(s, c) => /\ c \in Chunk /\ c.large /\ from <= c.at
                               /\ c.at + L <= to /\ c.at % L = 0
    BY ONLY <2>6, <2>8, <2>9 DEF InSeq
  <2>11. \A v \in from..(to - 1) : \E c \in Chunk : InSeq(s, c) /\ Covers(c, v)
    <3> TAKE v \in from..(to - 1)
    <3> DEFINE d == (v - from) \div L
    <3>1. v - from \in Nat
      OBVIOUS
    <3>2. /\ d \in Nat /\ v - from = d * L + ((v - from) % L)
          /\ (v - from) % L \in 0..(L - 1)
      BY <2>1, <3>1, DivMod, Zenon
    <3> HIDE DEF d
    <3>3. d * L \in Nat /\ d * L <= v - from /\ v - from < d * L + L
      BY <2>1, <3>2, TimesNat
    <3>4. d < n
      <4> SUFFICES ASSUME n <= d PROVE FALSE
        BY <2>4, <3>2
      <4>1. n * L = to - from
        BY <2>1, <2>3 DEF L
      <4>2. n < d => n * L + L <= d * L
        BY <2>1, <2>4, <3>2, TimesLess
      <4>3. n = d => n * L = d * L
        OBVIOUS
      <4>4. n * L <= d * L
        BY <2>1, <2>4, <3>2, <3>3, <4>1, <4>2, <4>3
      <4> QED
        BY <3>1, <3>3, <4>1, <4>4
    <3>5. d + 1 \in 1..n /\ (d + 1) - 1 = d
      BY <2>4, <3>2, <3>4
    <3> DEFINE c == s[d + 1]
    <3>6. c \in Chunk /\ c.large /\ c.at = from + d * L /\ InSeq(s, c)
      <4>1. c \in Chunk /\ c.large /\ c.at = place(d + 1) /\ InSeq(s, c)
        BY ONLY <2>8, <2>9, <3>5 DEF InSeq
      <4>2. place(d + 1) = from + d * L
        BY ONLY <3>5 DEF place
      <4> QED
        BY <4>1, <4>2, Zenon
    <3> HIDE DEF c
    <3>7. Covers(c, v)
      <4> DEFINE p == d * L
      <4> HIDE DEF p
      <4>1. /\ p \in Nat /\ p <= v - from /\ v - from < p + L /\ c.at = from + p
            /\ L \in Nat
        BY <2>1, <3>3, <3>6 DEF p
      <4>2. c.at <= v /\ v < c.at + L
        BY <4>1
      <4> QED
        BY <3>6, <4>2 DEF Covers, L
    <3> QED
      BY <3>6, <3>7
  <2> QED
    BY <2>8, <2>10, <2>11 DEF s, L
<1>MultipleBelow. ASSUME NEW a \in Nat, NEW b \in Nat, a * LargePages < b * LargePages
                  PROVE  a * LargePages + LargePages <= b * LargePages
  <2> USE <1>MultipleBelow
  <2>1. LargePages \in Nat /\ a * LargePages \in Nat /\ b * LargePages \in Nat
    BY Consts, TimesNat
  <2>2. ~(b < a)
    <3> SUFFICES ASSUME b < a PROVE FALSE
      OBVIOUS
    <3>1. b * LargePages + LargePages <= a * LargePages
      BY <2>1, TimesLess
    <3> QED
      BY <2>1, <3>1
  <2>3. a # b
    BY <2>1
  <2>4. a < b
    BY <2>2, <2>3
  <2> QED
    BY <2>1, <2>4, TimesLess
<1>SmallOK. ASSUME NEW start \in Nat, NEW end \in Nat, NEW c \in Chunk, ~c.large,
                   start <= c.at, c.at < end,
                   \/ c.at < AlignUp(start, LargePages)
                   \/ AlignDown(end, LargePages) <= c.at
                   \/ AlignDown(end, LargePages) < AlignUp(start, LargePages)
            PROVE  ChunkOK(c, start, end)
  <2> USE <1>SmallOK
  <2> DEFINE L == LargePages
             b == Block(c.at)
             up == AlignUp(start, L)
             down == AlignDown(end, L)
             e == end \div L
             p == b * L
  <2>1. L \in Nat \ {0}
    BY Consts
  <2>2. c.at \in Nat /\ b \in Nat
    BY BlockFacts DEF Chunk
  <2>3. p \in Nat /\ p <= c.at /\ c.at < p + L
    <3>1. /\ b * L \in Nat /\ c.at = b * L + (c.at % L) /\ c.at % L \in 0..(L - 1)
      BY <2>2, BlockFacts, Zenon
    <3> QED
      BY <2>1, <2>2, <3>1
  <2>4. PICK k \in Nat : up = k * L
    BY <2>1, AlignUpFacts, Zenon
  <2>5. up \in Nat /\ start <= up /\ up < start + L
    BY <2>1, AlignUpFacts
  <2>6. e \in Nat
    BY <2>1, DivMod, Zenon
  <2>7. down \in Nat /\ down = e * L /\ down <= end /\ end < down + L
    BY <2>1, AlignDownFacts, Zenon
  <2> HIDE DEF up, down, e, b, L
  <2>8. ~(p < up) \/ p + L <= up
    BY <2>2, <2>4, <1>MultipleBelow DEF L
  <2>9. ~(up < p + L) \/ up <= p
    <3> SUFFICES ASSUME up < p + L PROVE up <= p
      OBVIOUS
    <3>1. p < up => p + L <= up
      BY <2>8
    <3> QED
      BY <2>1, <2>3, <2>5, <3>1
  <2>10. ~(p < down) \/ p + L <= down
    BY <2>2, <2>6, <2>7, <1>MultipleBelow DEF L
  <2>11. ~(down < p) \/ down + L <= p
    BY <2>2, <2>6, <2>7, <1>MultipleBelow DEF L
  <2>12. ~(start <= p /\ p + L <= end)
    <3> HIDE DEF p
    <3> SUFFICES ASSUME start <= p, p + L <= end PROVE FALSE
      OBVIOUS
    <3>1. p < down
      BY <2>1, <2>3, <2>7, <2>11
    <3>2. up <= p
      BY <2>1, <2>3, <2>5, <2>8
    <3>3. p + L <= down
      BY <3>1, <2>10
    <3> QED
      BY <2>1, <2>2, <2>3, <2>5, <2>7, <3>2, <3>3 DEF up, down, L
  <2> QED
    BY <2>12 DEF ChunkOK, Whole, b, L
<1> TAKE start, end \in Nat
<1> HAVE start < end
<1> DEFINE L == LargePages
           up == AlignUp(start, L)
           down == AlignDown(end, L)
           cs == Chunks(start, end)
           a == SmallChunks(start, up)
           b == LargeChunks(up, down)
           d == SmallChunks(down, end)
<1>1. L \in Nat \ {0}
  BY Consts
<1>2. PICK i \in Nat : up = i * L
  BY <1>1, AlignUpFacts, Zenon
<1>3. up \in Nat /\ start <= up /\ up < start + L
  BY <1>1, AlignUpFacts
<1>4. PICK j \in Nat : down = j * L
  <2>1. end \div L \in Nat /\ down = (end \div L) * L
    BY <1>1, DivMod, AlignDownFacts, Zenon
  <2> QED
    BY <2>1
<1>5. down \in Nat /\ down <= end /\ end < down + L
  BY <1>1, AlignDownFacts
<1>6. cs = IF down < up THEN SmallChunks(start, end) ELSE (a \o b) \o d
  BY DEF Chunks
<1> SUFFICES /\ cs \in Seq(Chunk)
             /\ \A c : InSeq(cs, c) => c \in Chunk /\ ChunkOK(c, start, end)
             /\ \A v \in start..(end - 1) : \E c \in Chunk : InSeq(cs, c) /\ Covers(c, v)
  <2> HIDE DEF cs
  <2>1. \A k \in 1..Len(cs) : InSeq(cs, cs[k])
    BY DEF InSeq
  <2>2. \A v \in start..(end - 1) : \E k \in 1..Len(cs) : Covers(cs[k], v)
    BY DEF InSeq
  <2>3. \A k \in 1..Len(cs) : cs[k] \in Chunk /\ ChunkOK(cs[k], start, end)
    BY <2>1
  <2> QED
    BY <2>2, <2>3 DEF cs
<1> HIDE DEF cs
<1>7. CASE down < up
  <2> DEFINE s == SmallChunks(start, end)
  <2>1. /\ s \in Seq(Chunk)
        /\ \A c : InSeq(s, c) => c \in Chunk /\ ~c.large /\ start <= c.at /\ c.at < end
        /\ \A v \in start..(end - 1) : \E c \in Chunk : InSeq(s, c) /\ Covers(c, v)
    <3>1. start <= end
      OBVIOUS
    <3> QED
      BY <3>1, <1>SmallChunksAre, Zenon
  <2>2. cs = s
    BY <1>6, <1>7
  <2> HIDE DEF s
  <2>3. \A c : InSeq(s, c) => ChunkOK(c, start, end)
    BY <1>7, <2>1, <1>SmallOK
  <2> QED
    BY <2>1, <2>2, <2>3
<1>8. CASE up <= down
  <2>1. cs = (a \o b) \o d
    BY <1>3, <1>5, <1>6, <1>8
  <2>2. /\ a \in Seq(Chunk)
        /\ \A c : InSeq(a, c) => c \in Chunk /\ ~c.large /\ start <= c.at /\ c.at < up
        /\ \A v \in start..(up - 1) : \E c \in Chunk : InSeq(a, c) /\ Covers(c, v)
    BY <1>3, <1>SmallChunksAre, Zenon
  <2>3. /\ d \in Seq(Chunk)
        /\ \A c : InSeq(d, c) => c \in Chunk /\ ~c.large /\ down <= c.at /\ c.at < end
        /\ \A v \in down..(end - 1) : \E c \in Chunk : InSeq(d, c) /\ Covers(c, v)
    BY <1>5, <1>SmallChunksAre, Zenon
  <2>4. /\ b \in Seq(Chunk)
        /\ \A c : InSeq(b, c) => /\ c \in Chunk /\ c.large /\ up <= c.at
                                 /\ c.at + L <= down /\ c.at % L = 0
        /\ \A v \in up..(down - 1) : \E c \in Chunk : InSeq(b, c) /\ Covers(c, v)
    BY <1>2, <1>3, <1>4, <1>5, <1>8, <1>LargeChunksAre
  <2> HIDE DEF a, b, d
  <2>5. /\ a \o b \in Seq(Chunk)
        /\ \A c : InSeq(a \o b, c) <=> InSeq(a, c) \/ InSeq(b, c)
    BY <2>2, <2>4, <1>ConcatIn
  <2>6. /\ cs \in Seq(Chunk)
        /\ \A c : InSeq(cs, c) <=> InSeq(a \o b, c) \/ InSeq(d, c)
    <3> DEFINE ab == a \o b
    <3>1. ab \in Seq(Chunk)
      BY <2>5
    <3> HIDE DEF ab
    <3>2. ab \o d \in Seq(Chunk) /\ \A c : InSeq(ab \o d, c) <=> InSeq(ab, c) \/ InSeq(d, c)
      BY <2>3, <3>1, <1>ConcatIn
    <3> QED
      BY <2>1, <3>2 DEF ab
  <2>7. \A c : InSeq(cs, c) <=> InSeq(a, c) \/ InSeq(b, c) \/ InSeq(d, c)
    BY <2>5, <2>6
  <2> HIDE DEF up, down
  <2>8. \A c : InSeq(a, c) => c \in Chunk /\ ChunkOK(c, start, end)
    <3> SUFFICES ASSUME NEW c, InSeq(a, c) PROVE c \in Chunk /\ ChunkOK(c, start, end)
      OBVIOUS
    <3>1. c \in Chunk /\ ~c.large /\ start <= c.at /\ c.at < up /\ c.at \in Nat
      BY <2>2 DEF Chunk
    <3>2. c.at < end
      BY <1>3, <1>5, <1>8, <3>1
    <3> QED
      BY <3>1, <3>2, <1>SmallOK DEF up, L
  <2>9. \A c : InSeq(d, c) => c \in Chunk /\ ChunkOK(c, start, end)
    <3> SUFFICES ASSUME NEW c, InSeq(d, c) PROVE c \in Chunk /\ ChunkOK(c, start, end)
      OBVIOUS
    <3>1. c \in Chunk /\ ~c.large /\ down <= c.at /\ c.at < end /\ c.at \in Nat
      BY <2>3 DEF Chunk
    <3>2. start <= c.at
      BY <1>3, <1>5, <1>8, <3>1
    <3> QED
      BY <3>1, <3>2, <1>SmallOK DEF down, L
  <2>10. \A c : InSeq(b, c) => c \in Chunk /\ ChunkOK(c, start, end)
    <3> SUFFICES ASSUME NEW c, InSeq(b, c) PROVE c \in Chunk /\ ChunkOK(c, start, end)
      OBVIOUS
    <3>1. /\ c \in Chunk /\ c.large /\ up <= c.at /\ c.at + L <= down
          /\ c.at % L = 0 /\ c.at \in Nat
      BY <2>4 DEF Chunk
    <3>2. start <= c.at /\ c.at + L <= end
      BY <1>1, <1>3, <1>5, <3>1
    <3> QED
      BY <3>1, <3>2 DEF ChunkOK, L
  <2>11. \A v \in start..(end - 1) : \E c \in Chunk : InSeq(cs, c) /\ Covers(c, v)
    <3> TAKE v \in start..(end - 1)
    <3>1. v \in start..(up - 1) \/ v \in up..(down - 1) \/ v \in down..(end - 1)
      BY <1>3, <1>5
    <3> QED
      BY <2>2, <2>3, <2>4, <2>7, <3>1
  <2> QED
    BY <2>6, <2>7, <2>8, <2>9, <2>10, <2>11
<1> QED
  BY <1>3, <1>5, <1>7, <1>8


-----------------------------------------------------------------------------
(* The loop of mmu_map_range: the address space after each page.           *)
MapChunk(w, c, start, frame) ==
    IF w.err # "ok" THEN w
    ELSE IF c.large THEN MapLargePage(w, c.at, frame + c.at - start)
    ELSE MapSmallPage(w, c.at, frame + c.at - start)

MapSteps(h, m, cs, start, frame, n) ==
    /\ h = [k \in 0..n |-> h[k]]
    /\ h[0] = m
    /\ \A k \in 1..n : h[k] = MapChunk(h[k - 1], cs[k], start, frame)

(* One turn of the loop, from w to x, has mapped the page or pages of c.   *)
ChunkMapped(m, w, x, c, start, end, frame) ==
    /\ MapMid(m, x, start, end, frame)
    /\ x.err = "ok" => \A u \in Nat : Covers(c, u) => IsMapped(x, u)
    /\ \A u \in Nat : IsMapped(w, u) => IsMapped(x, u)

LEMMA ChunkStep ==
    \A m, w, start, end, frame : \A c \in Chunk :
        /\ MapPre(m, start, end, frame)
        /\ MapMid(m, w, start, end, frame)
        /\ w.err = "ok"
        /\ ChunkOK(c, start, end)
        => ChunkMapped(m, w, MapChunk(w, c, start, frame), c, start, end, frame)
<1>BlockUnique. ASSUME NEW v \in Nat, NEW k \in Nat,
                       k * LargePages <= v, v < k * LargePages + LargePages
                PROVE  Block(v) = k /\ v % LargePages = v - k * LargePages
  BY <1>BlockUnique, Consts, DivUnique DEF Block
<1>UpdateIs. ASSUME NEW f \in Tables, NEW x \in Nat, NEW y \in Nat
             PROVE  Updated(Update(f, x, y), f, x, y)
  BY <1>UpdateIs DEF Updated, Update
<1>WithDirFields. ASSUME NEW m \in VM, NEW v \in Nat
                  PROVE  LET w == WithDir(m, v)
                         IN  /\ w \in VM /\ Kept(m, w)
                             /\ w.ptes = m.ptes /\ w.pdes = m.pdes /\ w.tables = m.tables
                             /\ w.err = m.err \/ w.err = "ENOMEM"
  <2> USE <1>WithDirFields
  <2>0. m.nextSmall \in Nat /\ m.nextSmall <= m.nextSmall
    BY Consts DEF VM
  <2>1. CASE v \div DirPages \in m.dirs
    BY <2>0, <2>1 DEF WithDir, Kept
  <2>2. CASE v \div DirPages \notin m.dirs /\ NoSmall(m)
    <3>1. WithDir(m, v) = SetErr(m, "ENOMEM")
      BY <2>2 DEF WithDir, SetErr
    <3> QED
      BY <2>0, <3>1, ErrFields DEF Kept, Errors
  <2>3. CASE v \div DirPages \notin m.dirs /\ ~NoSmall(m)
    <3> DEFINE t == TakeSmall(m)
    <3>1. WithDir(m, v) = [t EXCEPT !.dirs = @ \union {v \div DirPages}]
      BY <2>3 DEF WithDir
    <3>2. /\ t \in VM /\ t.err = m.err
          /\ t.regions = m.regions /\ t.last = m.last
          /\ t.ptes = m.ptes /\ t.pdes = m.pdes /\ t.tables = m.tables
          /\ t.page = m.page /\ t.freed = m.freed
          /\ m.nextSmall <= t.nextSmall /\ t.nextLarge = m.nextLarge
      BY <2>0, <2>3, TakeSmallFields
    <3>3. v \div DirPages \in Nat
      BY Consts, DivMod
    <3> HIDE DEF t
    <3>4. /\ WithDir(m, v) \in VM
          /\ WithDir(m, v).ptes = t.ptes /\ WithDir(m, v).pdes = t.pdes
          /\ WithDir(m, v).tables = t.tables /\ WithDir(m, v).err = t.err
          /\ WithDir(m, v).regions = t.regions /\ WithDir(m, v).last = t.last
          /\ WithDir(m, v).page = t.page /\ WithDir(m, v).freed = t.freed
          /\ WithDir(m, v).nextLarge = t.nextLarge
          /\ WithDir(m, v).nextSmall = t.nextSmall
      BY <3>1, <3>2, <3>3 DEF VM
    <3> QED
      BY <3>2, <3>4 DEF Kept
  <2> QED
    BY <2>1, <2>2, <2>3
<1>WithTableFields. ASSUME NEW m \in VM, NEW v \in Nat
                    PROVE  LET w == WithTable(m, v)
                           IN  /\ w \in VM /\ Kept(m, w)
                               /\ w.ptes = m.ptes /\ w.pdes = m.pdes
                               /\ m.tables \subseteq w.tables
                               /\ w.tables \subseteq m.tables \union {Block(v)}
                               /\ Block(v) \in DOMAIN m.pdes => w.tables = m.tables
                               /\ w.err = m.err \/ w.err = "ENOMEM"
                               /\ w.err = "ok" => Block(v) \in w.tables \union DOMAIN m.pdes
  <2> USE <1>WithTableFields
  <2>0. m.nextSmall \in Nat /\ m.nextSmall <= m.nextSmall
    BY Consts DEF VM
  <2> DEFINE done == m.err # "ok" \/ Block(v) \in m.tables \union DOMAIN m.pdes
  <2>1. CASE done
    <3>1. WithTable(m, v) = m
      BY <2>1 DEF WithTable, Block
    <3> QED
      BY <2>0, <2>1, <3>1 DEF Kept
  <2>2. CASE ~done /\ NoSmall(m)
    <3>1. WithTable(m, v) = SetErr(m, "ENOMEM")
      BY <2>2 DEF WithTable, SetErr, Block
    <3> QED
      BY <2>0, <3>1, ErrFields DEF Kept, Errors
  <2>3. CASE ~done /\ ~NoSmall(m)
    <3> DEFINE t == TakeSmall(m)
               w == WithTable(m, v)
    <3>1. w = [t EXCEPT !.tables = @ \union {Block(v)}]
      BY <2>3 DEF WithTable, Block
    <3>2. /\ t \in VM /\ t.err = m.err
          /\ t.regions = m.regions /\ t.last = m.last
          /\ t.ptes = m.ptes /\ t.pdes = m.pdes /\ t.tables = m.tables
          /\ t.page = m.page /\ t.freed = m.freed
          /\ m.nextSmall <= t.nextSmall /\ t.nextLarge = m.nextLarge
      BY <2>0, <2>3, TakeSmallFields
    <3>3. Block(v) \in Nat
      BY BlockFacts
    <3> HIDE DEF t, w
    <3>4. /\ w \in VM
          /\ w.ptes = t.ptes /\ w.pdes = t.pdes
          /\ w.tables = t.tables \union {Block(v)} /\ w.err = t.err
          /\ w.regions = t.regions /\ w.last = t.last
          /\ w.page = t.page /\ w.freed = t.freed
          /\ w.nextLarge = t.nextLarge /\ w.nextSmall = t.nextSmall
      BY <3>1, <3>2, <3>3 DEF VM
    <3>5. w \in VM /\ Kept(m, w) /\ w.ptes = m.ptes /\ w.pdes = m.pdes
          /\ w.tables = m.tables \union {Block(v)} /\ w.err = m.err
      BY <3>2, <3>4 DEF Kept
    <3>6. Block(v) \notin DOMAIN m.pdes
      BY <2>3
    <3> HIDE DEF done
    <3> QED
      BY <3>5, <3>6 DEF w
  <2> QED
    BY <2>1, <2>2, <2>3
(* mmu_map_small_page where there is no large page, mmu_map_large_page     *)
(* where there is no page table.                                           *)
<1>KeptTwice. ASSUME NEW m \in VM, NEW u \in VM, NEW w \in VM, Kept(m, u), Kept(u, w)
              PROVE  Kept(m, w)
  <2> USE <1>KeptTwice
  <2>1. m.nextSmall \in Nat /\ u.nextSmall \in Nat /\ w.nextSmall \in Nat
    BY Consts DEF VM
  <2> QED
    BY <2>1 DEF Kept
<1>SmallPageFields. ASSUME NEW m \in VM, NEW v \in Nat, NEW f \in Nat, m.err = "ok",
                           Block(v) \notin DOMAIN m.pdes
                    PROVE  LET w == MapSmallPage(m, v, f)
                           IN  /\ w \in VM /\ Kept(m, w) /\ w.pdes = m.pdes
                               /\ m.tables \subseteq w.tables
                               /\ w.tables \subseteq m.tables \union {Block(v)}
                               /\ w.err \in {"ok", "ENOMEM"}
                               /\ w.err # "ok" => w.ptes = m.ptes
                               /\ w.err = "ok" => Block(v) \in w.tables /\ w.ptes = Update(m.ptes, v, f)
  <2> USE <1>SmallPageFields
  <2> DEFINE d == WithDir(m, v)
             t == WithTable(d, v)
             w == MapSmallPage(m, v, f)
  <2>1. /\ d \in VM /\ Kept(m, d) /\ d.ptes = m.ptes /\ d.pdes = m.pdes
        /\ d.tables = m.tables /\ d.err \in {"ok", "ENOMEM"}
    BY <1>WithDirFields
  <2>2. w = IF t.err # "ok" THEN t
            ELSE IF Block(v) \in DOMAIN t.pdes THEN [t EXCEPT !.err = "EINVAL: mapped"]
            ELSE [t EXCEPT !.ptes = Update(@, v, f)]
    BY DEF MapSmallPage, Block
  <2> HIDE DEF d
  <2>3. /\ t \in VM /\ Kept(d, t) /\ t.ptes = d.ptes /\ t.pdes = d.pdes
        /\ d.tables \subseteq t.tables
        /\ t.tables \subseteq d.tables \union {Block(v)}
        /\ t.err = d.err \/ t.err = "ENOMEM"
        /\ t.err = "ok" => Block(v) \in t.tables \union DOMAIN d.pdes
    BY <2>1, <1>WithTableFields
  <2> HIDE DEF t
  <2>4. Kept(m, t)
    BY <2>1, <2>3, <1>KeptTwice
  <2> HIDE DEF w
  <2>5. CASE t.err # "ok"
    <3>1. w = t
      BY <2>2, <2>5
    <3> QED
      BY <2>1, <2>3, <2>4, <2>5, <3>1 DEF w
  <2>6. CASE t.err = "ok"
    <3>1. w = [t EXCEPT !.ptes = Update(m.ptes, v, f)]
      BY <2>1, <2>2, <2>3, <2>6
    <3>2. Update(m.ptes, v, f) \in Tables
      BY UpdateTable, Zenon DEF VM
    <3> DEFINE p == Update(m.ptes, v, f)
    <3> HIDE DEF p
    <3>3. /\ w \in VM /\ w.ptes = p /\ w.pdes = t.pdes
          /\ w.tables = t.tables /\ w.err = t.err
          /\ w.regions = t.regions /\ w.last = t.last
          /\ w.page = t.page /\ w.freed = t.freed
          /\ w.nextLarge = t.nextLarge /\ w.nextSmall = t.nextSmall
      BY <2>3, <3>1, <3>2 DEF VM, p
    <3>4. Kept(m, w)
      BY <2>4, <3>3 DEF Kept
    <3>5. Block(v) \in t.tables
      BY <2>1, <2>3, <2>6
    <3> QED
      BY <2>1, <2>3, <2>6, <3>3, <3>4, <3>5 DEF w, p
  <2> QED
    BY <2>5, <2>6
<1>LargePageFields. ASSUME NEW m \in VM, NEW v \in Nat, NEW f \in Nat, m.err = "ok",
                           Block(v) \notin m.tables
                    PROVE  LET w == MapLargePage(m, v, f)
                           IN  /\ w \in VM /\ Kept(m, w) /\ w.ptes = m.ptes /\ w.tables = m.tables
                               /\ w.err \in {"ok", "ENOMEM"}
                               /\ w.err # "ok" => w.pdes = m.pdes
                               /\ w.err = "ok" => w.pdes = Update(m.pdes, Block(v), f)
  <2> USE <1>LargePageFields
  <2> DEFINE d == WithDir(m, v)
             w == MapLargePage(m, v, f)
  <2>1. /\ d \in VM /\ Kept(m, d) /\ d.ptes = m.ptes /\ d.pdes = m.pdes
        /\ d.tables = m.tables /\ d.err \in {"ok", "ENOMEM"}
    BY <1>WithDirFields
  <2>2. w = IF d.err # "ok" THEN d
            ELSE IF Block(v) \in d.tables THEN [d EXCEPT !.err = "EINVAL: mapped"]
            ELSE [d EXCEPT !.pdes = Update(@, Block(v), f)]
    BY DEF MapLargePage, Block
  <2> HIDE DEF d, w
  <2>3. CASE d.err # "ok"
    <3>1. w = d
      BY <2>2, <2>3
    <3> QED
      BY <2>1, <2>3, <3>1 DEF w
  <2>4. CASE d.err = "ok"
    <3> DEFINE p == Update(m.pdes, Block(v), f)
    <3>1. w = [d EXCEPT !.pdes = p]
      BY <2>1, <2>2, <2>4
    <3>2. p \in Tables
      BY UpdateTable, BlockFacts, Zenon DEF VM
    <3> HIDE DEF p
    <3>3. /\ w \in VM /\ w.pdes = p /\ w.ptes = d.ptes
          /\ w.tables = d.tables /\ w.err = d.err
          /\ w.regions = d.regions /\ w.last = d.last
          /\ w.page = d.page /\ w.freed = d.freed
          /\ w.nextLarge = d.nextLarge /\ w.nextSmall = d.nextSmall
      BY <2>1, <3>1, <3>2 DEF VM
    <3>4. Kept(m, w)
      BY <2>1, <3>3 DEF Kept
    <3> QED
      BY <2>1, <2>4, <3>3, <3>4 DEF w, p
  <2> QED
    BY <2>3, <2>4
<1>SmallStep. ASSUME NEW m, NEW w, NEW start, NEW end, NEW frame,
                     MapPre(m, start, end, frame), MapMid(m, w, start, end, frame),
                     w.err = "ok", NEW v \in start..(end - 1), ~Whole(Block(v), start, end)
              PROVE  LET x == MapSmallPage(w, v, frame + (v - start))
                     IN  /\ MapMid(m, x, start, end, frame)
                         /\ x.err = "ok" => IsMapped(x, v)
                         /\ \A u \in Nat : IsMapped(w, u) => IsMapped(x, u)
  <2> USE <1>SmallStep
  <2> DEFINE f == frame + (v - start)
             x == MapSmallPage(w, v, f)
  <2>0. start \in Nat /\ end \in Nat /\ frame \in Nat /\ m \in VM /\ w \in VM
    BY DEF MapPre, MapMid
  <2>1. v \in Nat /\ f \in Nat /\ Block(v) \in Nat
    BY <2>0, BlockFacts
  <2>2. ~IsMapped(m, v)
    BY DEF MapPre
  <2>3. Block(v) \notin DOMAIN w.pdes
    BY <2>2 DEF MapMid, IsMapped
  <2>4. /\ x \in VM /\ Kept(w, x) /\ x.pdes = w.pdes
        /\ w.tables \subseteq x.tables
        /\ x.tables \subseteq w.tables \union {Block(v)}
        /\ x.err \in {"ok", "ENOMEM"}
        /\ x.err # "ok" => x.ptes = w.ptes
        /\ x.err = "ok" => Block(v) \in x.tables /\ x.ptes = Update(w.ptes, v, f)
    BY <2>0, <2>1, <2>3, <1>SmallPageFields
  <2>5. /\ DOMAIN Update(w.ptes, v, f) = DOMAIN w.ptes \union {v}
        /\ Update(w.ptes, v, f)[v] = f
        /\ \A z \in DOMAIN w.ptes : z # v => Update(w.ptes, v, f)[z] = w.ptes[z]
    <3>1. w.ptes \in Tables
      BY <2>0 DEF VM
    <3> HIDE DEF f
    <3>2. Updated(Update(w.ptes, v, f), w.ptes, v, f)
      BY <2>1, <3>1, <1>UpdateIs
    <3> QED
      BY <3>2 DEF Updated
  <2> SUFFICES /\ MapMid(m, x, start, end, frame)
               /\ x.err = "ok" => IsMapped(x, v)
               /\ \A u \in Nat : IsMapped(w, u) => IsMapped(x, u)
    OBVIOUS
  <2>6. f = frame + (v - start)
    OBVIOUS
  <2> HIDE DEF x, f
  <2>7. /\ DOMAIN w.ptes \subseteq DOMAIN x.ptes
        /\ DOMAIN x.ptes \subseteq DOMAIN w.ptes \union {v}
        /\ \A z \in DOMAIN w.ptes : z # v => x.ptes[z] = w.ptes[z]
        /\ v \in DOMAIN x.ptes => v \in DOMAIN w.ptes \/ Block(v) \in x.tables
        /\ v \in DOMAIN x.ptes => v \in DOMAIN w.ptes \/ x.ptes[v] = f
        /\ x.err = "ok" => v \in DOMAIN x.ptes
    BY <2>4, <2>5
  <2>8. \A u \in Nat : IsMapped(w, u) => IsMapped(x, u)
    BY <2>4, <2>7 DEF IsMapped
  <2>9. x.err = "ok" => IsMapped(x, v)
    BY <2>7 DEF IsMapped
  <2>10. Kept(m, x)
    BY <2>0, <2>4, <1>KeptTwice DEF MapMid
  <2>11. Structured(x)
    <3>1. Structured(w)
      BY DEF MapMid
    <3>2. \A u \in DOMAIN x.ptes : Block(u) \in x.tables
      BY <2>4, <2>7, <3>1 DEF Structured
    <3>3. \A k \in x.tables : k \notin DOMAIN x.pdes
      BY <2>3, <2>4, <3>1 DEF Structured
    <3> QED
      BY <3>2, <3>3 DEF Structured
  <2>12. \A u \in Nat : u # v /\ IsMapped(w, u) => Frame(x, u) = Frame(w, u)
    BY <2>4, <2>7 DEF IsMapped, Frame
  <2>13. \A u \in Nat : u # v /\ IsMapped(x, u) => IsMapped(w, u)
    BY <2>4, <2>7 DEF IsMapped
  <2>14. \A u \in Nat : IsMapped(m, u) => IsMapped(x, u) /\ Frame(x, u) = Frame(m, u)
    <3> TAKE u \in Nat
    <3> HAVE IsMapped(m, u)
    <3>1. u # v /\ IsMapped(w, u) /\ Frame(w, u) = Frame(m, u)
      BY <2>2 DEF MapMid
    <3> QED
      BY <3>1, <2>8, <2>12
  <2>15. IsMapped(x, v) => Frame(x, v) = f
    <3> SUFFICES ASSUME IsMapped(x, v) PROVE Frame(x, v) = f
      OBVIOUS
    <3>1. v \in DOMAIN x.ptes /\ Frame(x, v) = x.ptes[v]
      BY <2>3, <2>4 DEF IsMapped, Frame
    <3>2. CASE x.err = "ok"
      BY <3>1, <3>2, <2>4, <2>5
    <3>3. CASE x.err # "ok"
      <4>1. x.ptes = w.ptes
        BY <3>3, <2>4
      <4>2. IsMapped(w, v) /\ Frame(w, v) = w.ptes[v]
        BY <3>1, <4>1, <2>3 DEF IsMapped, Frame
      <4>3. Frame(w, v) = frame + (v - start)
        BY <4>2, <2>1, <2>2 DEF MapMid
      <4> QED
        BY <3>1, <4>1, <4>2, <4>3, <2>6
    <3> QED
      BY <3>2, <3>3
  <2>16. \A u \in Nat : IsMapped(x, u) =>
            \/ IsMapped(m, u)
            \/ u \in start..(end - 1) /\ Frame(x, u) = frame + (u - start)
    <3> TAKE u \in Nat
    <3> HAVE IsMapped(x, u)
    <3>1. CASE u = v
      BY <3>1, <2>6, <2>15
    <3>2. CASE u # v
      <4>1. IsMapped(w, u) /\ Frame(x, u) = Frame(w, u)
        BY <3>2, <2>12, <2>13
      <4>2. \/ IsMapped(m, u)
            \/ u \in start..(end - 1) /\ Frame(w, u) = frame + (u - start)
        BY <4>1 DEF MapMid
      <4> QED
        BY <4>1, <4>2
    <3> QED
      BY <3>1, <3>2
  <2>17. \A k \in DOMAIN x.pdes : k \in DOMAIN m.pdes \/ Whole(k, start, end)
    BY <2>4 DEF MapMid
  <2>18. \A k \in x.tables : /\ ~Whole(k, start, end)
                             /\ \/ k \in m.tables
                                \/ \E u \in start..(end - 1) : Block(u) = k
    <3> TAKE k \in x.tables
    <3>1. CASE k = Block(v)
      BY <3>1
    <3>2. CASE k \in w.tables
      BY <3>2 DEF MapMid
    <3> QED
      BY <3>1, <3>2, <2>4
  <2>19. MapMid(m, x, start, end, frame)
    BY <2>4, <2>10, <2>11, <2>14, <2>16, <2>17, <2>18 DEF MapMid
  <2> QED
    BY <2>8, <2>9, <2>19
<1>LargeStep. ASSUME NEW m, NEW w, NEW start, NEW end, NEW frame,
                     MapPre(m, start, end, frame), MapMid(m, w, start, end, frame),
                     w.err = "ok", end = start + LargePages, start % LargePages = 0
              PROVE  LET x == MapLargePage(w, start, frame)
                     IN  /\ MapMid(m, x, start, end, frame)
                         /\ x.err = "ok" => \A u \in start..(end - 1) : IsMapped(x, u)
                         /\ \A u \in Nat : IsMapped(w, u) => IsMapped(x, u)
  <2> USE <1>LargeStep
  <2> DEFINE k == Block(start)
             x == MapLargePage(w, start, frame)
  <2>0. /\ start \in Nat /\ end \in Nat /\ frame \in Nat /\ m \in VM /\ w \in VM
        /\ LargePages \in Nat /\ LargePages > 1
    BY Consts DEF MapPre, MapMid
  <2>1. k \in Nat /\ k * LargePages = start
    BY <2>0, BlockFacts
  <2>2. frame % LargePages = 0
    BY <2>0 DEF MapPre
  <2>3. Whole(k, start, end)
    BY <2>0, <2>1 DEF Whole
  <2>4. k \notin w.tables
    BY <2>3 DEF MapMid
  <2>5. /\ x \in VM /\ Kept(w, x) /\ x.ptes = w.ptes /\ x.tables = w.tables
        /\ x.err \in {"ok", "ENOMEM"}
        /\ x.err # "ok" => x.pdes = w.pdes
        /\ x.err = "ok" => x.pdes = Update(w.pdes, k, frame)
    BY <2>0, <2>4, <1>LargePageFields
  <2> SUFFICES /\ MapMid(m, x, start, end, frame)
               /\ x.err = "ok" => \A u \in start..(end - 1) : IsMapped(x, u)
               /\ \A u \in Nat : IsMapped(w, u) => IsMapped(x, u)
    OBVIOUS
  <2>6. \A u \in Nat : Block(u) = k => /\ u \in start..(end - 1)
                                       /\ u % LargePages = u - start
    <3> SUFFICES ASSUME NEW u \in Nat, Block(u) = k
                 PROVE  u \in start..(end - 1) /\ u % LargePages = u - start
      OBVIOUS
    <3>1. /\ u = Block(u) * LargePages + (u % LargePages)
          /\ u % LargePages \in 0..(LargePages - 1)
      BY BlockFacts
    <3>2. u = start + (u % LargePages)
      BY <2>1, <3>1
    <3> QED
      BY <2>0, <3>1, <3>2
  <2>7. \A u \in start..(end - 1) : u \in Nat /\ Block(u) = k
    <3> TAKE u \in start..(end - 1)
    <3>1. u \in Nat /\ k * LargePages <= u /\ u < k * LargePages + LargePages
      BY <2>0, <2>1
    <3> HIDE DEF k
    <3> QED
      BY <2>1, <3>1, <1>BlockUnique
  <2> HIDE DEF x, k
  <2>8. CASE x.err # "ok"
    <3>1. x.pdes = w.pdes
      BY <2>5, <2>8
    <3>2. \A u : (IsMapped(x, u) <=> IsMapped(w, u)) /\ Frame(x, u) = Frame(w, u)
      BY <2>5, <3>1 DEF IsMapped, Frame
    <3>3. Kept(m, x)
      BY <2>0, <2>5, <1>KeptTwice DEF MapMid
    <3>4. Structured(x)
      BY <2>5, <3>1 DEF Structured, MapMid
    <3>5. MapMid(m, x, start, end, frame)
      <4>1. \A v \in Nat : IsMapped(m, v) => IsMapped(x, v) /\ Frame(x, v) = Frame(m, v)
        BY <3>2 DEF MapMid
      <4>2. \A v \in Nat : IsMapped(x, v) =>
               \/ IsMapped(m, v)
               \/ v \in start..(end - 1) /\ Frame(x, v) = frame + (v - start)
        BY <3>2 DEF MapMid
      <4> QED
        BY <2>5, <3>1, <3>3, <3>4, <4>1, <4>2 DEF MapMid
    <3> QED
      BY <2>8, <3>2, <3>5
  <2>9. CASE x.err = "ok"
    <3>1. /\ DOMAIN x.pdes = DOMAIN w.pdes \union {k}
          /\ x.pdes[k] = frame
          /\ \A z \in DOMAIN w.pdes : z # k => x.pdes[z] = w.pdes[z]
      <4>1. w.pdes \in Tables
        BY <2>0 DEF VM
      <4>2. Updated(Update(w.pdes, k, frame), w.pdes, k, frame)
        BY <2>0, <2>1, <4>1, <1>UpdateIs
      <4> QED
        BY <2>5, <2>9, <4>2 DEF Updated
    <3>2. Structured(w)
      BY DEF MapMid
    <3>3. \A u \in DOMAIN w.ptes : Block(u) # k
      BY <2>4, <3>2 DEF Structured
    <3>4. \A u \in Nat : Block(u) = k => IsMapped(x, u) /\ Frame(x, u) = frame + (u - start)
      <4> SUFFICES ASSUME NEW u \in Nat, Block(u) = k
                   PROVE  IsMapped(x, u) /\ Frame(x, u) = frame + (u - start)
        OBVIOUS
      <4>1. AlignDown(frame, LargePages) = frame
        BY <2>0, <2>2, AlignDownFacts
      <4>2. u % LargePages = u - start
        BY <2>6
      <4> QED
        BY <3>1, <4>1, <4>2 DEF IsMapped, Frame
    <3>5. \A u \in Nat : Block(u) # k =>
             /\ IsMapped(x, u) <=> IsMapped(w, u)
             /\ IsMapped(w, u) => Frame(x, u) = Frame(w, u)
      BY <2>5, <3>1 DEF IsMapped, Frame
    <3>6. \A u \in Nat : IsMapped(w, u) => IsMapped(x, u)
      BY <3>4, <3>5
    <3>7. \A u \in start..(end - 1) : IsMapped(x, u)
      BY <2>7, <3>4
    <3>8. Kept(m, x)
      BY <2>0, <2>5, <1>KeptTwice DEF MapMid
    <3>9. Structured(x)
      BY <2>4, <2>5, <3>1, <3>2 DEF Structured
    <3>10. \A v \in Nat : IsMapped(m, v) => IsMapped(x, v) /\ Frame(x, v) = Frame(m, v)
      <4> TAKE v \in Nat
      <4> HAVE IsMapped(m, v)
      <4>1. IsMapped(w, v) /\ Frame(w, v) = Frame(m, v)
        BY DEF MapMid
      <4>2. Block(v) # k
        BY <2>6 DEF MapPre
      <4> QED
        BY <3>5, <4>1, <4>2
    <3>11. \A v \in Nat : IsMapped(x, v) =>
             \/ IsMapped(m, v)
             \/ v \in start..(end - 1) /\ Frame(x, v) = frame + (v - start)
      <4> TAKE v \in Nat
      <4> HAVE IsMapped(x, v)
      <4>1. CASE Block(v) = k
        BY <2>6, <3>4, <4>1
      <4>2. CASE Block(v) # k
        <5>1. IsMapped(w, v) /\ Frame(x, v) = Frame(w, v)
          BY <3>5, <4>2
        <5>2. \/ IsMapped(m, v)
              \/ v \in start..(end - 1) /\ Frame(w, v) = frame + (v - start)
          BY <5>1 DEF MapMid
        <5> QED
          BY <5>1, <5>2
      <4> QED
        BY <4>1, <4>2
    <3>12. \A j \in DOMAIN x.pdes : j \in DOMAIN m.pdes \/ Whole(j, start, end)
      BY <2>3, <3>1 DEF MapMid
    <3>13. \A j \in x.tables : /\ ~Whole(j, start, end)
                               /\ \/ j \in m.tables
                                  \/ \E v \in start..(end - 1) : Block(v) = j
      BY <2>5 DEF MapMid
    <3>14. MapMid(m, x, start, end, frame)
      BY <2>5, <3>8, <3>9, <3>10, <3>11, <3>12, <3>13 DEF MapMid
    <3> QED
      BY <3>6, <3>7, <3>14
  <2> QED
    BY <2>8, <2>9
<1> TAKE m, w, start, end, frame
<1> TAKE c \in Chunk
<1> HAVE /\ MapPre(m, start, end, frame)
         /\ MapMid(m, w, start, end, frame)
         /\ w.err = "ok"
         /\ ChunkOK(c, start, end)
<1>0. /\ start \in Nat /\ end \in Nat /\ frame \in Nat /\ c.at \in Nat
      /\ LargePages \in Nat /\ LargePages > 1
      /\ end = start + 1 \/ end = start + LargePages
  BY Consts DEF MapPre, Chunk
<1>1. CASE ~c.large
  <2> DEFINE f == frame + (c.at - start)
             x == MapSmallPage(w, c.at, f)
  <2>1. c.at \in start..(end - 1) /\ ~Whole(Block(c.at), start, end)
    BY <1>0, <1>1 DEF ChunkOK
  <2>2. /\ MapMid(m, x, start, end, frame)
        /\ x.err = "ok" => IsMapped(x, c.at)
        /\ \A u \in Nat : IsMapped(w, u) => IsMapped(x, u)
    BY <2>1, <1>SmallStep
  <2>3. f = frame + c.at - start
    BY <1>0
  <2>4. MapChunk(w, c, start, frame) = x
    BY <1>1, <2>3 DEF MapChunk
  <2>5. \A u \in Nat : Covers(c, u) => u = c.at
    BY <1>0, <1>1 DEF Covers
  <2> HIDE DEF x
  <2> QED
    BY <2>2, <2>4, <2>5 DEF ChunkMapped
<1>2. CASE c.large
  <2> DEFINE x == MapLargePage(w, start, frame)
  <2>1. c.at = start /\ end = start + LargePages /\ start % LargePages = 0
    BY <1>0, <1>2 DEF ChunkOK
  <2>2. /\ MapMid(m, x, start, end, frame)
        /\ x.err = "ok" => \A u \in start..(end - 1) : IsMapped(x, u)
        /\ \A u \in Nat : IsMapped(w, u) => IsMapped(x, u)
    BY <2>1, <1>LargeStep, Zenon
  <2>3. frame + c.at - start = frame
    BY <1>0, <2>1
  <2>4. MapChunk(w, c, start, frame) = x
    BY <1>2, <2>1, <2>3 DEF MapChunk
  <2>5. \A u \in Nat : Covers(c, u) => u \in start..(end - 1)
    BY <1>0, <1>2, <2>1 DEF Covers
  <2> HIDE DEF x
  <2> QED
    BY <2>2, <2>4, <2>5 DEF ChunkMapped
<1> QED
  BY <1>1, <1>2

LEMMA RangeMapped ==
    LeastNumber =>
      \A m, start, end, frame :
          MapPre(m, start, end, frame) =>
          LET x == MapRange(m, start, end, frame)
          IN  /\ MapMid(m, x, start, end, frame)
              /\ x.err = "ok" => \A v \in start..(end - 1) : IsMapped(x, v)
<1> HAVE LeastNumber
<1>MidStart. ASSUME NEW m, NEW start, NEW end, NEW frame, MapPre(m, start, end, frame)
             PROVE  MapMid(m, m, start, end, frame)
  <2> USE <1>MidStart
  <2>1. m.nextSmall \in Nat
    BY Consts DEF MapPre, VM
  <2> QED
    BY <2>1 DEF MapPre, MapMid, Kept
<1>MapStepsExist. ASSUME NEW n \in Nat, NEW m, NEW cs, NEW start, NEW frame
                  PROVE  \E h : MapSteps(h, m, cs, start, frame, n)
  <2> USE <1>MapStepsExist
  <2> DEFINE Good(k) == \E h : MapSteps(h, m, cs, start, frame, k)
  <2> SUFFICES ASSUME ~Good(n) PROVE FALSE
    OBVIOUS
  <2> HIDE DEF Good
  <2>1. PICK k \in 0..n : ~Good(k) /\ \A j \in 0..n : j < k => Good(j)
    <3> DEFINE Bad == {j \in 0..n : ~Good(j)}
    <3>1. Bad \in SUBSET Nat /\ Bad # {}
      OBVIOUS
    <3>2. PICK k \in Bad : \A j \in Bad : k <= j
      BY <3>1, Zenon DEF LeastNumber
    <3> QED
      BY ONLY <3>2, <1>MapStepsExist
  <2>2. k # 0
    <3>1. MapSteps([j \in 0..0 |-> m], m, cs, start, frame, 0)
      BY DEF MapSteps
    <3> QED
      BY <2>1, <3>1 DEF Good
  <2>3. k \in Nat /\ k - 1 \in 0..n /\ k - 1 < k
    BY <2>1, <2>2
  <2>4. PICK g : MapSteps(g, m, cs, start, frame, k - 1)
    BY <2>1, <2>3 DEF Good
  <2> DEFINE e == [j \in 0..k |-> IF j < k THEN g[j]
                                  ELSE MapChunk(g[k - 1], cs[k], start, frame)]
  <2>5. e = [j \in 0..k |-> e[j]]
    OBVIOUS
  <2>6. e[0] = m
    BY <2>2, <2>3, <2>4 DEF MapSteps
  <2>7. \A j \in 1..k : e[j] = MapChunk(e[j - 1], cs[j], start, frame)
    <3> TAKE j \in 1..k
    <3>1. j - 1 \in 0..k /\ j \in 0..k /\ j - 1 < k
      BY <2>3
    <3>2. e[j - 1] = g[j - 1]
      BY <3>1
    <3>3. CASE j = k
      BY <3>1, <3>2, <3>3
    <3>4. CASE j # k
      <4>1. j < k /\ j \in 1..(k - 1)
        BY <2>3, <3>4
      <4>2. e[j] = g[j]
        BY <3>1, <4>1
      <4> QED
        BY <2>4, <3>2, <4>1, <4>2, Zenon DEF MapSteps
    <3> QED
      BY <3>3, <3>4
  <2>8. MapSteps(e, m, cs, start, frame, k)
    <3> HIDE DEF e
    <3> QED
      BY <2>5, <2>6, <2>7, Zenon DEF MapSteps
  <2> QED
    BY <2>1, <2>8 DEF Good
<1>MapRangeIs. ASSUME NEW m, NEW start, NEW end, NEW frame, Len(Chunks(start, end)) \in Nat
               PROVE  LET cs == Chunks(start, end)
                      IN  \E h : /\ MapSteps(h, m, cs, start, frame, Len(cs))
                                 /\ MapRange(m, start, end, frame) = h[Len(cs)]
  <2> USE <1>MapRangeIs
  <2> DEFINE cs == Chunks(start, end)
             F(g) == [k \in 0..Len(cs) |->
                        IF k = 0 THEN m
                        ELSE LET w == g[k - 1]
                                 f == frame + cs[k].at - start
                             IN  IF w.err # "ok" THEN w
                                 ELSE IF cs[k].large THEN MapLargePage(w, cs[k].at, f)
                                 ELSE MapSmallPage(w, cs[k].at, f)]
             h == CHOOSE g : g = F(g)
  <2>1. PICK e : MapSteps(e, m, cs, start, frame, Len(cs))
    BY <1>MapStepsExist
  <2>2. e = F(e)
    <3>1. e = [k \in 0..Len(cs) |-> e[k]] /\ e[0] = m
      BY <2>1 DEF MapSteps
    <3>2. \A k \in 0..Len(cs) : k # 0 => k \in 1..Len(cs)
      OBVIOUS
    <3>3. \A k \in 0..Len(cs) : e[k] = F(e)[k]
      BY <2>1, <3>1, <3>2, Zenon DEF MapSteps, MapChunk
    <3> QED
      BY <3>1, <3>3, Zenon
  <2>3. h = F(h)
    <3> HIDE DEF F
    <3> QED
      BY <2>2
  <2>4. MapRange(m, start, end, frame) = h[Len(cs)]
    BY DEF MapRange
  <2> HIDE DEF h
  <2>5. MapSteps(h, m, cs, start, frame, Len(cs))
    <3>1. h = [k \in 0..Len(cs) |-> h[k]]
      BY <2>3
    <3>2. h[0] = m
      BY <2>3
    <3>3. \A k \in 1..Len(cs) : h[k] = MapChunk(h[k - 1], cs[k], start, frame)
      <4> TAKE k \in 1..Len(cs)
      <4>1. k \in 0..Len(cs) /\ k # 0
        OBVIOUS
      <4>2. h[k] = F(h)[k]
        BY <2>3, Zenon
      <4> QED
        BY <4>1, <4>2 DEF MapChunk
    <3> QED
      BY <3>1, <3>2, <3>3 DEF MapSteps
  <2> QED
    BY <2>4, <2>5
<1> TAKE m, start, end, frame
<1> HAVE MapPre(m, start, end, frame)
<1> DEFINE cs == Chunks(start, end)
           n == Len(cs)
<1>0. start \in Nat /\ end \in Nat /\ start < end
  BY Consts DEF MapPre
<1>1. /\ cs \in Seq(Chunk)
      /\ \A k \in 1..n : cs[k] \in Chunk /\ ChunkOK(cs[k], start, end)
      /\ \A v \in start..(end - 1) : \E k \in 1..n : Covers(cs[k], v)
  BY <1>0, ChunksAre, Zenon
<1>2. n \in Nat
  BY <1>1
<1>3. PICK h : MapSteps(h, m, cs, start, frame, n) /\ MapRange(m, start, end, frame) = h[n]
  BY <1>2, <1>MapRangeIs
<1> HIDE DEF cs, n
<1> DEFINE Good(k) ==
             /\ MapMid(m, h[k], start, end, frame)
             /\ h[k].err = "ok" =>
                  \A i \in 1..k : \A v \in Nat : Covers(cs[i], v) => IsMapped(h[k], v)
<1>4. \A k \in 0..n : Good(k)
  <2> SUFFICES ASSUME NEW b \in 0..n, ~Good(b) PROVE FALSE
    OBVIOUS
  <2> HIDE DEF Good
  <2>1. PICK k \in 0..n : ~Good(k) /\ \A j \in 0..n : j < k => Good(j)
    <3> DEFINE Bad == {j \in 0..n : ~Good(j)}
    <3>1. Bad \in SUBSET Nat /\ Bad # {}
      BY <1>2
    <3>2. PICK k \in Bad : \A j \in Bad : k <= j
      BY <3>1, Zenon DEF LeastNumber
    <3> QED
      BY ONLY <3>2, <1>2
  <2>2. k # 0
    <3>1. h[0] = m
      BY <1>3 DEF MapSteps
    <3>2. Good(0)
      BY <3>1, <1>MidStart DEF Good
    <3> QED
      BY <2>1, <3>2
  <2>3. k \in 1..n /\ k - 1 \in 0..n /\ k - 1 < k
    BY <1>2, <2>1, <2>2
  <2>4. Good(k - 1)
    BY <2>1, <2>3
  <2> DEFINE w == h[k - 1]
             x == h[k]
  <2>5. x = MapChunk(w, cs[k], start, frame)
    BY <1>3, <2>3, Zenon DEF MapSteps
  <2> HIDE DEF w, x
  <2>6. /\ MapMid(m, w, start, end, frame)
        /\ w.err = "ok" =>
             \A i \in 1..(k - 1) : \A v \in Nat : Covers(cs[i], v) => IsMapped(w, v)
    BY <2>4 DEF Good, w
  <2>7. CASE w.err # "ok"
    <3>1. x = w
      BY <2>5, <2>7 DEF MapChunk
    <3>2. Good(k)
      BY <2>6, <2>7, <3>1 DEF Good, x
    <3> QED
      BY <2>1, <3>2
  <2>8. CASE w.err = "ok"
    <3>1. cs[k] \in Chunk /\ ChunkOK(cs[k], start, end)
      BY <1>1, <2>3
    <3> DEFINE c == cs[k]
               y == MapChunk(w, c, start, frame)
    <3>2. /\ MapMid(m, y, start, end, frame)
          /\ y.err = "ok" => \A u \in Nat : Covers(c, u) => IsMapped(y, u)
          /\ \A u \in Nat : IsMapped(w, u) => IsMapped(y, u)
      <4>1. c \in Chunk /\ ChunkOK(c, start, end)
        BY <3>1
      <4> HIDE DEF c
      <4> QED
        BY <2>6, <2>8, <4>1, ChunkStep, Zenon DEF ChunkMapped
    <3>3. x = y
      BY <2>5
    <3> HIDE DEF y
    <3>4. \A i \in 1..k : i = k \/ i \in 1..(k - 1)
      BY <2>3
    <3>5. x.err = "ok" => \A i \in 1..k : \A v \in Nat : Covers(cs[i], v) => IsMapped(x, v)
      BY <2>6, <2>8, <3>2, <3>3, <3>4
    <3>6. Good(k)
      BY <3>2, <3>3, <3>5 DEF Good, x
    <3> QED
      BY <2>1, <3>6
  <2> QED
    BY <2>7, <2>8
<1>5. Good(n)
  BY <1>2, <1>4
<1>6. h[n].err = "ok" => \A v \in start..(end - 1) : IsMapped(h[n], v)
  <2> SUFFICES ASSUME h[n].err = "ok", NEW v \in start..(end - 1) PROVE IsMapped(h[n], v)
    OBVIOUS
  <2>1. v \in Nat
    BY <1>0
  <2> QED
    BY <1>1, <1>5, <2>1
<1> QED
  BY <1>3, <1>5, <1>6


-----------------------------------------------------------------------------
(* The frames of the page allocator.                                       *)
LEMMA LargeFrameFacts ==
    /\ \A i \in Nat : /\ LargeFrame(i) \in Nat /\ LargeFrame(i) % LargePages = 0
                      /\ NSmall < LargeFrame(i)
                      /\ LargeFrame(i + 1) = LargeFrame(i) + LargePages
    /\ \A i, j \in Nat : i <= j => LargeFrame(i) <= LargeFrame(j)
<1> DEFINE L == LargePages
           a == AlignUp(NSmall + 1, L)
<1>0. L \in Nat \ {0} /\ NSmall \in Nat /\ NSmall + 1 \in Nat
  BY Consts
<1>1. PICK k \in Nat : a = k * L
  BY <1>0, AlignUpFacts, Zenon
<1>2. a \in Nat /\ NSmall + 1 <= a
  BY <1>0, AlignUpFacts
<1>3. \A i \in Nat : LargeFrame(i) = a + i * L
  BY DEF LargeFrame
<1> HIDE DEF a, L
<1>4. \A i \in Nat : i * L \in Nat /\ (k + i) * L = k * L + i * L /\ (i + 1) * L = i * L + L
  BY <1>0
<1>5. \A i \in Nat : LargeFrame(i) \in Nat /\ NSmall < LargeFrame(i)
  <2> TAKE i \in Nat
  <2> DEFINE p == i * L
  <2>1. p \in Nat /\ LargeFrame(i) = a + p
    BY <1>3, <1>4
  <2> HIDE DEF p
  <2> QED
    BY <1>0, <1>2, <2>1
<1>6. \A i \in Nat : LargeFrame(i) % L = 0
  <2> TAKE i \in Nat
  <2> DEFINE q == k + i
             f == LargeFrame(i)
  <2>1. q \in Nat /\ f \in Nat /\ f = a + i * L /\ a = k * L
    BY <1>1, <1>3, <1>5
  <2>2. f = q * L
    BY <1>4, <2>1
  <2> HIDE DEF q, f
  <2>3. q * L <= f /\ f < q * L + L
    BY ONLY <1>0, <2>1, <2>2
  <2>4. f % L = f - q * L
    BY <1>0, <2>1, <2>3, DivUnique, Zenon
  <2> QED
    BY ONLY <2>1, <2>2, <2>4 DEF f
<1>7. \A i \in Nat : LargeFrame(i + 1) = LargeFrame(i) + L
  <2> TAKE i \in Nat
  <2> DEFINE p == i * L
             q == (i + 1) * L
  <2>1. p \in Nat /\ q = p + L /\ LargeFrame(i) = a + p /\ LargeFrame(i + 1) = a + q
    BY <1>3, <1>4
  <2> HIDE DEF p, q
  <2> QED
    BY <1>0, <1>2, <2>1
<1>8. \A i, j \in Nat : i <= j => LargeFrame(i) <= LargeFrame(j)
  <2> SUFFICES ASSUME NEW i \in Nat, NEW j \in Nat, i < j
               PROVE  LargeFrame(i) <= LargeFrame(j)
    BY <1>5
  <2> DEFINE p == i * L
             q == j * L
  <2>1. p \in Nat /\ q \in Nat /\ p + L <= q
    BY <1>0, TimesLess
  <2>2. LargeFrame(i) = a + p /\ LargeFrame(j) = a + q
    BY <1>3
  <2> HIDE DEF p, q
  <2> QED
    BY <1>0, <1>2, <2>1, <2>2
<1> QED
  BY <1>5, <1>6, <1>7, <1>8 DEF L

SamePages(m, x) ==
    /\ x.ptes = m.ptes /\ x.pdes = m.pdes /\ x.tables = m.tables
    /\ m.nextSmall <= x.nextSmall /\ m.nextLarge <= x.nextLarge

SameTranslation(m, x) ==
    /\ \A v : (IsMapped(x, v) <=> IsMapped(m, v)) /\ Frame(x, v) = Frame(m, v)
    /\ RxUnused(x) <=> RxUnused(m)

(* What is mapped stays mapped, to the same frame.                         *)
Stays(m, x) ==
    \A v \in Nat : IsMapped(m, v) => IsMapped(x, v) /\ Frame(x, v) = Frame(m, v)

LEMMA StaysTwice ==
    ASSUME NEW m, NEW w, NEW x, Stays(m, w), Stays(w, x)
    PROVE  Stays(m, x)
  BY DEF Stays

LEMMA SameStays ==
    ASSUME NEW m, NEW x, SameTranslation(m, x)
    PROVE  Stays(m, x)
  BY DEF Stays, SameTranslation

LEMMA NextTypes ==
    ASSUME NEW m \in VM
    PROVE  /\ m.nextSmall \in Nat /\ m.nextLarge \in Nat
           /\ m.nextSmall >= 1 /\ m.nextLarge >= 1
           /\ m.nextSmall <= NSmall + 1 /\ m.nextLarge <= NLarge + 1
  BY Consts DEF VM

LEMMA GivenGrows ==
    ASSUME NEW m \in VM, NEW x \in VM, NEW f \in Nat, Given(m, f),
           m.nextSmall <= x.nextSmall, m.nextLarge <= x.nextLarge
    PROVE  Given(x, f)
<1>1. LargeFrame(m.nextLarge) <= LargeFrame(x.nextLarge)
  BY NextTypes, LargeFrameFacts
<1>2. LargeFrame(m.nextLarge) \in Nat /\ LargeFrame(x.nextLarge) \in Nat
  BY NextTypes, LargeFrameFacts, Zenon
<1> QED
  BY <1>1, <1>2, NextTypes DEF Given

LEMMA SoundKept ==
    ASSUME NEW m, NEW x \in VM, Sound(m), SamePages(m, x)
    PROVE  Sound(x) /\ SameTranslation(m, x)
<1>0. m \in VM
  BY DEF Sound
<1>1. \A v : (IsMapped(x, v) <=> IsMapped(m, v)) /\ Frame(x, v) = Frame(m, v)
  BY DEF SamePages, IsMapped, Frame
<1>2. SameTranslation(m, x)
  BY <1>1 DEF SameTranslation, RxUnused
<1>3. Structured(x)
  BY DEF Sound, Structured, SamePages
<1>4. FramesGiven(x)
  <2> SUFFICES ASSUME NEW v \in Nat, IsMapped(x, v)
               PROVE  Frame(x, v) \in Nat /\ Given(x, Frame(x, v))
    BY DEF FramesGiven
  <2>1. Frame(x, v) = Frame(m, v) /\ Frame(m, v) \in Nat /\ Given(m, Frame(m, v))
    BY <1>1 DEF Sound, FramesGiven
  <2> QED
    BY <1>0, <2>1, GivenGrows DEF SamePages
<1>5. OneToOne(x)
  BY <1>1 DEF Sound, OneToOne
<1> QED
  BY <1>2, <1>3, <1>4, <1>5 DEF Sound

FreshFrames(m, frame, n) ==
    \A f \in frame..(frame + n - 1) :
        Given(m, f) /\ \A v \in Nat : IsMapped(m, v) => Frame(m, v) # f

LEMMA SmallFrameFresh ==
    ASSUME NEW m, NEW x \in VM, Sound(m), SamePages(m, x), ~NoSmall(m),
           x.nextSmall = m.nextSmall + 1
    PROVE  FreshFrames(x, m.nextSmall, 1)
<1> DEFINE f == m.nextSmall
<1>0. m \in VM
  BY DEF Sound
<1>1. f \in Nat /\ f >= 1 /\ f <= NSmall /\ NSmall \in Nat
  BY <1>0, Consts, NextTypes DEF NoSmall
<1>2. Given(x, f)
  BY <1>1 DEF Given
<1>3. ~Given(m, f)
  <2>1. LargeFrame(1) \in Nat /\ NSmall < LargeFrame(1)
    BY LargeFrameFacts
  <2> QED
    BY <1>1, <2>1 DEF Given, RxFrame
<1>4. \A v \in Nat : IsMapped(x, v) => Frame(x, v) # f
  <2> TAKE v \in Nat
  <2> HAVE IsMapped(x, v)
  <2>1. IsMapped(m, v) /\ Frame(x, v) = Frame(m, v)
    BY SoundKept DEF SameTranslation
  <2>2. Given(m, Frame(m, v))
    BY <2>1 DEF Sound, FramesGiven
  <2> QED
    BY <1>3, <2>1, <2>2
<1>5. \A g \in f..(f + 1 - 1) : g = f
  BY <1>1
<1> QED
  BY <1>2, <1>4, <1>5 DEF FreshFrames

-----------------------------------------------------------------------------
(* What an operation on the pages start to end does to an address space    *)
(* in which they are not mapped.                                           *)
Ready(m, start, end) ==
    /\ Sound(m) /\ m.err = "ok" /\ start \in Nat /\ end \in Nat
    /\ \A v \in Nat : start <= v /\ v < end => ~IsMapped(m, v)
    /\ \A k \in m.tables : ~Whole(k, start, end)

Grown(m, x, start, end) ==
    /\ Sound(x) /\ x.last = m.last /\ x.regions = m.regions /\ Stays(m, x)
    /\ \A v \in Nat : IsMapped(x, v) => IsMapped(m, v) \/ (start <= v /\ v < end)
    /\ \A k \in x.tables : \/ k \in m.tables
                           \/ \E v \in Nat : Block(v) = k /\ start <= v /\ v < end

AllMapped(x, start, end) == \A v \in Nat : start <= v /\ v < end => IsMapped(x, v)

Outcome(m, x, start, end) ==
    /\ Sound(x) /\ x.last = m.last /\ Stays(m, x)
    /\ \A v \in Nat : IsMapped(x, v) => IsMapped(m, v) \/ (start <= v /\ v < end)
    /\ \A k \in x.tables : \/ k \in m.tables
                           \/ \E v \in Nat : Block(v) = k /\ start <= v /\ v < end
    /\ x.err # "ok" => x.regions = m.regions
    /\ x.err = "ok" => /\ start < end /\ AllMapped(x, start, end)
                       /\ x.regions = (m.regions \ {Region(start, end, FALSE)})
                                        \union {Region(start, end, TRUE)}

LEMMA GrownTwice ==
    ASSUME NEW m, NEW w, NEW x, NEW start, NEW end,
           Grown(m, w, start, end), Grown(w, x, start, end)
    PROVE  Grown(m, x, start, end)
<1>1. Sound(x) /\ x.last = m.last /\ x.regions = m.regions
  BY DEF Grown
<1>2. Stays(m, x)
  BY StaysTwice DEF Grown
<1>3. \A v \in Nat : IsMapped(x, v) => IsMapped(m, v) \/ (start <= v /\ v < end)
  BY DEF Grown
<1>4. \A k \in x.tables : \/ k \in m.tables
                          \/ \E v \in Nat : Block(v) = k /\ start <= v /\ v < end
  BY DEF Grown
<1> QED
  BY <1>1, <1>2, <1>3, <1>4 DEF Grown

LEMMA SameGrown ==
    ASSUME NEW m, NEW x \in VM, Sound(m), SamePages(m, x),
           x.last = m.last, x.regions = m.regions, NEW start, NEW end
    PROVE  Grown(m, x, start, end)
<1>1. Sound(x) /\ SameTranslation(m, x)
  BY SoundKept
<1>2. x.tables = m.tables
  BY DEF SamePages
<1> QED
  BY <1>1, <1>2, SameStays DEF Grown, SameTranslation

LEMMA RangeGrown ==
    LeastNumber =>
      \A m, start, end, frame :
          /\ Sound(m)
          /\ MapPre(m, start, end, frame)
          /\ FreshFrames(m, frame, end - start)
          =>
          LET x == MapRange(m, start, end, frame)
          IN  /\ Grown(m, x, start, end)
              /\ x.err = "ok" => AllMapped(x, start, end)
              /\ RxUnused(m) /\ frame > 0 => RxUnused(x)
<1> HAVE LeastNumber
<1>MapSound. ASSUME NEW m, NEW x, NEW start, NEW end, NEW frame,
                    Sound(m), MapPre(m, start, end, frame), MapMid(m, x, start, end, frame),
                    FreshFrames(m, frame, end - start)
             PROVE  /\ Sound(x)
                    /\ RxUnused(m) /\ frame > 0 => RxUnused(x)
  <2> USE <1>MapSound
  <2>0. start \in Nat /\ end \in Nat /\ frame \in Nat /\ m \in VM /\ x \in VM
    BY DEF MapPre, MapMid
  <2>1. \A v \in start..(end - 1) : /\ frame + (v - start) \in Nat
                                    /\ frame <= frame + (v - start)
                                    /\ frame + (v - start) \in frame..(frame + (end - start) - 1)
    BY <2>0
  <2>2. m.nextSmall <= x.nextSmall /\ m.nextLarge <= x.nextLarge
    BY <2>0, NextTypes DEF MapMid, Kept
  <2>3. \A v \in Nat : IsMapped(x, v) =>
          \/ IsMapped(m, v) /\ Frame(x, v) = Frame(m, v)
          \/ /\ v \in start..(end - 1) /\ Frame(x, v) = frame + (v - start)
             /\ \A w \in Nat : IsMapped(m, w) => Frame(m, w) # Frame(x, v)
    <3> TAKE v \in Nat
    <3> HAVE IsMapped(x, v)
    <3>1. CASE IsMapped(m, v)
      BY <3>1 DEF MapMid
    <3>2. CASE ~IsMapped(m, v)
      <4>1. v \in start..(end - 1) /\ Frame(x, v) = frame + (v - start)
        BY <3>2 DEF MapMid
      <4>2. Frame(x, v) \in frame..(frame + (end - start) - 1)
        BY <2>1, <4>1
      <4> QED
        BY <4>1, <4>2 DEF FreshFrames
    <3> QED
      BY <3>1, <3>2
  <2>4. FramesGiven(x)
    <3> SUFFICES ASSUME NEW v \in Nat, IsMapped(x, v)
                 PROVE  Frame(x, v) \in Nat /\ Given(x, Frame(x, v))
      BY DEF FramesGiven
    <3>1. Frame(x, v) \in Nat /\ Given(m, Frame(x, v))
      <4>1. CASE IsMapped(m, v) /\ Frame(x, v) = Frame(m, v)
        BY <4>1 DEF Sound, FramesGiven
      <4>2. CASE v \in start..(end - 1) /\ Frame(x, v) = frame + (v - start)
        BY <2>1, <4>2 DEF FreshFrames
      <4> QED
        BY <2>3, <4>1, <4>2
    <3> QED
      BY <2>0, <2>2, <3>1, GivenGrows
  <2>5. OneToOne(x)
    <3> SUFFICES ASSUME NEW v \in Nat, NEW w \in Nat, IsMapped(x, v), IsMapped(x, w),
                        Frame(x, v) = Frame(x, w)
                 PROVE  v = w
      BY DEF OneToOne
    <3>1. CASE /\ IsMapped(m, v) /\ Frame(x, v) = Frame(m, v)
               /\ IsMapped(m, w) /\ Frame(x, w) = Frame(m, w)
      BY <3>1, Zenon DEF Sound, OneToOne
    <3>2. CASE /\ v \in start..(end - 1) /\ Frame(x, v) = frame + (v - start)
               /\ w \in start..(end - 1) /\ Frame(x, w) = frame + (w - start)
      <4>1. frame + (v - start) = frame + (w - start)
        BY <3>2, Zenon
      <4> QED
        BY <2>0, <4>1
    <3> QED
      BY <2>3, <3>1, <3>2
  <2>6. RxUnused(m) /\ frame > 0 => RxUnused(x)
    <3> SUFFICES ASSUME RxUnused(m), frame > 0, NEW v \in Nat, IsMapped(x, v)
                 PROVE  Frame(x, v) # RxFrame
      BY DEF RxUnused
    <3>1. CASE IsMapped(m, v) /\ Frame(x, v) = Frame(m, v)
      BY <3>1 DEF RxUnused
    <3>2. CASE v \in start..(end - 1) /\ Frame(x, v) = frame + (v - start)
      <4>1. frame + (v - start) > 0
        BY <2>0, <3>2
      <4> QED
        BY <3>2, <4>1 DEF RxFrame
    <3> QED
      BY <2>3, <3>1, <3>2
  <2> QED
    BY <2>0, <2>4, <2>5, <2>6 DEF Sound, MapMid
<1> TAKE m, start, end, frame
<1> HAVE /\ Sound(m)
         /\ MapPre(m, start, end, frame)
         /\ FreshFrames(m, frame, end - start)
<1> DEFINE x == MapRange(m, start, end, frame)
<1>1. /\ MapMid(m, x, start, end, frame)
      /\ x.err = "ok" => \A v \in start..(end - 1) : IsMapped(x, v)
  BY RangeMapped
<1> SUFFICES /\ Grown(m, x, start, end)
             /\ x.err = "ok" => AllMapped(x, start, end)
             /\ RxUnused(m) /\ frame > 0 => RxUnused(x)
  OBVIOUS
<1> HIDE DEF x
<1>2. Sound(x) /\ (RxUnused(m) /\ frame > 0 => RxUnused(x))
  BY <1>1, <1>MapSound
<1>3. start \in Nat /\ end \in Nat
  BY DEF MapPre
<1>4. \A v \in Nat : v \in start..(end - 1) <=> start <= v /\ v < end
  BY <1>3
<1>5. x.last = m.last /\ x.regions = m.regions
  BY <1>1 DEF MapMid, Kept
<1>6. Stays(m, x)
  BY <1>1 DEF MapMid, Stays
<1>7. \A v \in Nat : IsMapped(x, v) => IsMapped(m, v) \/ (start <= v /\ v < end)
  BY <1>1, <1>4 DEF MapMid
<1>8. \A k \in x.tables : \/ k \in m.tables
                          \/ \E v \in Nat : Block(v) = k /\ start <= v /\ v < end
  <2> TAKE k \in x.tables
  <2>1. k \in m.tables \/ \E v \in start..(end - 1) : Block(v) = k
    BY <1>1 DEF MapMid
  <2>2. \A v \in start..(end - 1) : v \in Nat
    BY <1>3
  <2> QED
    BY <1>4, <2>1, <2>2
<1>9. x.err = "ok" => AllMapped(x, start, end)
  BY <1>1, <1>4 DEF AllMapped
<1> QED
  BY <1>2, <1>5, <1>6, <1>7, <1>8, <1>9 DEF Grown


LEMMA SetPageFields ==
    ASSUME NEW m \in VM, NEW start \in Nat, NEW frame \in Nat
    PROVE  LET x == SetPage(m, start, frame)
           IN  /\ x \in VM /\ SamePages(m, x) /\ x.err = m.err
               /\ x.last = m.last /\ x.regions = m.regions
               /\ x.nextSmall = m.nextSmall /\ x.nextLarge = m.nextLarge
<1> DEFINE p == Update(m.page, start, frame)
<1>1. p \in Tables
  BY UpdateTable, Zenon DEF VM
<1>2. SetPage(m, start, frame) = [m EXCEPT !.page = p]
  BY DEF SetPage
<1> HIDE DEF p
<1> QED
  BY <1>1, <1>2, NextTypes DEF VM, SamePages

LEMMA DoneOutcome ==
    ASSUME NEW m, NEW x, NEW start \in Nat, NEW end \in Nat, start < end,
           Grown(m, x, start, end), x.err = "ok" => AllMapped(x, start, end)
    PROVE  LET y == Done(x, start, end)
           IN  Outcome(m, y, start, end) /\ (RxUnused(x) => RxUnused(y))
<1> DEFINE y == Done(x, start, end)
<1> SUFFICES Outcome(m, y, start, end) /\ (RxUnused(x) => RxUnused(y))
  OBVIOUS
<1>1. CASE x.err # "ok"
  <2>1. y = x
    BY <1>1 DEF Done
  <2> QED
    BY <1>1, <2>1, Zenon DEF Grown, Outcome
<1>2. CASE x.err = "ok"
  <2>0. x \in VM /\ Sound(x)
    BY DEF Grown, Sound
  <2> DEFINE R == (x.regions \ {Region(start, end, FALSE)}) \union {Region(start, end, TRUE)}
  <2>1. y = [x EXCEPT !.regions = R]
    BY <1>2 DEF Done
  <2>2. R \in SUBSET Regions
    <3>1. x.regions \in SUBSET Regions
      BY <2>0 DEF VM
    <3>2. Region(start, end, TRUE) \in Regions
      BY DEF Regions, Region
    <3> QED
      BY <3>1, <3>2, Zenon
  <2> HIDE DEF R, y
  <2>3. /\ y \in VM /\ SamePages(x, y) /\ y.err = x.err /\ y.last = x.last
        /\ y.regions = R
    BY <2>0, <2>1, <2>2, NextTypes DEF VM, SamePages
  <2>4. Sound(y) /\ SameTranslation(x, y)
    BY <2>0, <2>3, SoundKept
  <2>5. y.tables = x.tables
    BY <2>3 DEF SamePages
  <2>6. \A v : IsMapped(y, v) <=> IsMapped(x, v)
    BY <2>4 DEF SameTranslation
  <2>7. /\ y.last = m.last /\ y.err = "ok"
        /\ R = (m.regions \ {Region(start, end, FALSE)}) \union {Region(start, end, TRUE)}
    BY <1>2, <2>3 DEF Grown, R
  <2>8. AllMapped(y, start, end)
    BY <1>2, <2>6 DEF AllMapped
  <2>9. /\ Stays(m, y)
        /\ \A v \in Nat : IsMapped(y, v) => IsMapped(m, v) \/ (start <= v /\ v < end)
    <3>1. Stays(m, y)
      BY <2>4, SameStays, StaysTwice, Zenon DEF Grown
    <3> QED
      BY <2>6, <3>1 DEF Grown
  <2>10. \A k \in y.tables : \/ k \in m.tables
                             \/ \E v \in Nat : Block(v) = k /\ start <= v /\ v < end
    BY <2>5 DEF Grown
  <2> QED
    BY <2>3, <2>4, <2>7, <2>8, <2>9, <2>10 DEF Outcome, SameTranslation
<1> QED
  BY <1>1, <1>2

LEMMA OutcomeAfter ==
    ASSUME NEW m, NEW w, NEW x, NEW start, NEW end, Sound(m), w \in VM,
           SamePages(m, w), w.last = m.last, w.regions = m.regions,
           Outcome(w, x, start, end)
    PROVE  Outcome(m, x, start, end)
<1>1. \A v : IsMapped(w, v) <=> IsMapped(m, v)
  BY SoundKept DEF SameTranslation
<1>2. w.tables = m.tables
  BY DEF SamePages
<1>3. Stays(m, x)
  BY SoundKept, SameStays, StaysTwice, Zenon DEF Outcome
<1> QED
  BY <1>1, <1>2, <1>3, Zenon DEF Outcome

(* VMAddressSpace::map of a page that no virtual page has.                 *)
LEMMA MapOutcome ==
    ASSUME LeastNumber, NEW m, NEW start, NEW end, NEW frame \in Nat, Ready(m, start, end),
           \/ end = start + 1
           \/ end = start + LargePages /\ frame % LargePages = 0,
           FreshFrames(m, frame, end - start)
    PROVE  LET x == Map(m, start, end, frame)
           IN  /\ Outcome(m, x, start, end)
               /\ RxUnused(m) /\ frame > 0 => RxUnused(x)
<1> DEFINE w == SetPage(m, start, frame)
           y == MapRange(w, start, end, frame)
           x == Done(y, start, end)
<1>0. start \in Nat /\ end \in Nat /\ start < end /\ m \in VM /\ Sound(m)
  BY Consts DEF Ready, Sound
<1>1. /\ w \in VM /\ SamePages(m, w) /\ w.err = m.err
      /\ w.last = m.last /\ w.regions = m.regions
      /\ w.nextSmall = m.nextSmall /\ w.nextLarge = m.nextLarge
  BY <1>0, SetPageFields
<1>2. Map(m, start, end, frame) = x
  BY DEF Map
<1> HIDE DEF w
<1>3. Sound(w) /\ SameTranslation(m, w)
  BY <1>0, <1>1, SoundKept
<1>4. MapPre(w, start, end, frame)
  <2>1. \A v \in start..(end - 1) : ~IsMapped(w, v)
    <3> TAKE v \in start..(end - 1)
    <3>1. v \in Nat /\ start <= v /\ v < end
      BY <1>0
    <3> QED
      BY <1>3, <3>1 DEF Ready, SameTranslation
  <2>2. \A k \in w.tables : ~Whole(k, start, end)
    BY <1>1 DEF SamePages, Ready
  <2>3. w.err = "ok" /\ Structured(w)
    BY <1>1, <1>3 DEF Ready, Sound
  <2> QED
    BY <1>0, <1>1, <2>1, <2>2, <2>3 DEF MapPre
<1>5. FreshFrames(w, frame, end - start)
  BY <1>1, <1>3 DEF FreshFrames, Given, SameTranslation
<1>6. /\ Grown(w, y, start, end)
      /\ y.err = "ok" => AllMapped(y, start, end)
      /\ RxUnused(w) /\ frame > 0 => RxUnused(y)
  BY <1>3, <1>4, <1>5, RangeGrown
<1> HIDE DEF y
<1>7. Outcome(w, x, start, end) /\ (RxUnused(y) => RxUnused(x))
  BY <1>0, <1>6, DoneOutcome
<1> HIDE DEF x
<1>8. Outcome(m, x, start, end)
  BY <1>0, <1>1, <1>7, OutcomeAfter
<1> QED
  BY <1>2, <1>3, <1>6, <1>7, <1>8 DEF SameTranslation

(* VMAddressSpace::populate.                                               *)
LEMMA PopulateOutcome ==
    LeastNumber =>
      \A m, start, end :
          Ready(m, start, end) =>
          LET x == Populate(m, start, end)
          IN  Outcome(m, x, start, end) /\ (RxUnused(m) => RxUnused(x))
<1> HAVE LeastNumber
<1>LargeFrameFresh. ASSUME NEW m, NEW x \in VM, Sound(m), SamePages(m, x),
                           x.nextLarge = m.nextLarge + 1
                    PROVE  FreshFrames(x, LargeFrame(m.nextLarge), LargePages)
  <2> USE <1>LargeFrameFresh
  <2> DEFINE i == m.nextLarge
             a == LargeFrame(i)
  <2>0. m \in VM
    BY DEF Sound
  <2>1. /\ i \in Nat /\ i >= 1 /\ m.nextSmall \in Nat /\ m.nextSmall <= NSmall + 1
        /\ NSmall \in Nat /\ LargePages \in Nat
    BY <2>0, Consts, NextTypes
  <2>2. /\ a \in Nat /\ NSmall < a /\ LargeFrame(i + 1) = a + LargePages
        /\ LargeFrame(1) <= a /\ LargeFrame(1) \in Nat
    BY <2>1, LargeFrameFacts, Zenon
  <2> SUFFICES ASSUME NEW f \in a..(a + LargePages - 1)
               PROVE  Given(x, f) /\ \A v \in Nat : IsMapped(x, v) => Frame(x, v) # f
    BY DEF FreshFrames
  <2>3. x.nextLarge = i + 1
    OBVIOUS
  <2>4. ~Given(m, f)
    BY <2>1, <2>2 DEF Given, RxFrame
  <2> HIDE DEF i, a
  <2>5. LargeFrame(1) <= f /\ f < LargeFrame(i + 1)
    BY <2>1, <2>2
  <2>6. Given(x, f)
    BY <2>3, <2>5 DEF Given
  <2>7. \A v \in Nat : IsMapped(x, v) => Frame(x, v) # f
    <3> TAKE v \in Nat
    <3> HAVE IsMapped(x, v)
    <3>1. IsMapped(m, v) /\ Frame(x, v) = Frame(m, v)
      BY SoundKept DEF SameTranslation
    <3>2. Given(m, Frame(m, v))
      BY <3>1 DEF Sound, FramesGiven
    <3> QED
      BY <2>4, <3>1, <3>2
  <2> QED
    BY <2>6, <2>7
<1>ErrOutcome. ASSUME NEW m, NEW start, NEW end, Sound(m), NEW e \in Errors, e # "ok"
               PROVE  /\ Outcome(m, SetErr(m, e), start, end)
                      /\ RxUnused(m) => RxUnused(SetErr(m, e))
  <2> USE <1>ErrOutcome
  <2> DEFINE x == SetErr(m, e)
  <2>0. m \in VM
    BY DEF Sound
  <2>1. /\ x \in VM /\ SamePages(m, x) /\ x.err = e
        /\ x.last = m.last /\ x.regions = m.regions
    BY <2>0, ErrFields, NextTypes DEF SamePages
  <2> HIDE DEF x
  <2>2. Grown(m, x, start, end) /\ SameTranslation(m, x)
    BY <2>1, SameGrown, SoundKept
  <2> QED
    BY <2>1, <2>2, Zenon DEF Grown, Outcome, SameTranslation, x
<1>ReadyKept. ASSUME NEW m, NEW w \in VM, NEW start, NEW end, Ready(m, start, end),
                     SamePages(m, w), w.err = "ok"
              PROVE  Ready(w, start, end)
  <2> USE <1>ReadyKept
  <2>1. Sound(w) /\ SameTranslation(m, w)
    BY SoundKept DEF Ready
  <2>2. w.tables = m.tables
    BY DEF SamePages
  <2> QED
    BY <2>1, <2>2 DEF Ready, SameTranslation
<1> TAKE m, start, end
<1> HAVE Ready(m, start, end)
<1> DEFINE x == Populate(m, start, end)
<1>0. /\ m \in VM /\ Sound(m) /\ m.err = "ok" /\ start \in Nat /\ end \in Nat
      /\ LargePages \in Nat /\ LargePages > 1
  BY Consts DEF Ready, Sound
<1>1. CASE end - start = LargePages /\ m.nextLarge > NLarge
  <2>1. x = SetErr(m, "ENOMEM")
    BY <1>1 DEF Populate, SetErr
  <2> QED
    BY <1>0, <2>1, <1>ErrOutcome DEF Errors
<1>2. CASE end - start = LargePages /\ ~(m.nextLarge > NLarge)
  <2> DEFINE w == [m EXCEPT !.nextLarge = @ + 1]
             f == LargeFrame(m.nextLarge)
  <2>1. x = Map(w, start, end, f)
    BY <1>2 DEF Populate
  <2>2. m.nextLarge + 1 \in 1..(NLarge + 1)
    BY <1>0, <1>2, Consts, NextTypes
  <2>3. /\ w \in VM /\ SamePages(m, w) /\ w.err = m.err /\ w.last = m.last
        /\ w.regions = m.regions /\ w.nextLarge = m.nextLarge + 1
    BY <1>0, <2>2, NextTypes DEF VM, SamePages
  <2>4. f \in Nat /\ f % LargePages = 0 /\ f > 0
    <3>1. m.nextLarge \in Nat /\ NSmall \in Nat
      BY <1>0, Consts, NextTypes
    <3>2. f \in Nat /\ f % LargePages = 0 /\ NSmall < f
      BY <3>1, LargeFrameFacts, Zenon
    <3> QED
      BY <3>1, <3>2
  <2> HIDE DEF w
  <2>5. FreshFrames(w, f, end - start)
    BY <1>0, <1>2, <2>3, <1>LargeFrameFresh
  <2> HIDE DEF f, x
  <2>6. Ready(w, start, end)
    BY <1>0, <2>3, <1>ReadyKept
  <2>7. end = start + LargePages
    BY <1>0, <1>2
  <2>8. Outcome(w, x, start, end) /\ (RxUnused(w) => RxUnused(x))
    BY <2>1, <2>4, <2>5, <2>6, <2>7, MapOutcome
  <2>9. Outcome(m, x, start, end)
    BY <1>0, <2>3, <2>8, OutcomeAfter
  <2> QED
    BY <1>0, <2>3, <2>8, <2>9, SoundKept DEF SameTranslation, x
<1>3. CASE end - start # LargePages /\ end - start = 1 /\ NoSmall(m)
  <2>1. x = SetErr(m, "ENOMEM")
    BY <1>3 DEF Populate, SetErr
  <2> QED
    BY <1>0, <2>1, <1>ErrOutcome DEF Errors
<1>4. CASE end - start # LargePages /\ end - start = 1 /\ ~NoSmall(m)
  <2> DEFINE w == TakeSmall(m)
             f == m.nextSmall
  <2>1. x = Map(w, start, end, f)
    BY <1>4 DEF Populate
  <2>2. /\ w \in VM /\ SamePages(m, w) /\ w.err = m.err /\ w.last = m.last
        /\ w.regions = m.regions /\ w.nextSmall = m.nextSmall + 1
    BY <1>0, <1>4, TakeSmallFields, NextTypes DEF SamePages
  <2>3. f \in Nat /\ f > 0
    BY <1>0, NextTypes
  <2> HIDE DEF w
  <2>4. FreshFrames(w, f, end - start)
    BY <1>0, <1>4, <2>2, SmallFrameFresh
  <2> HIDE DEF f, x
  <2>5. Ready(w, start, end)
    BY <1>0, <2>2, <1>ReadyKept
  <2>6. end = start + 1
    BY <1>0, <1>4
  <2>7. Outcome(w, x, start, end) /\ (RxUnused(w) => RxUnused(x))
    BY <2>1, <2>3, <2>4, <2>5, <2>6, MapOutcome
  <2>8. Outcome(m, x, start, end)
    BY <1>0, <2>2, <2>7, OutcomeAfter
  <2> QED
    BY <1>0, <2>2, <2>7, <2>8, SoundKept DEF SameTranslation, x
<1>5. CASE end - start # LargePages /\ end - start # 1
  <2>1. x = SetErr(m, "EINVAL")
    BY <1>5 DEF Populate, SetErr
  <2> QED
    BY <1>0, <2>1, <1>ErrOutcome DEF Errors
<1> QED
  BY <1>1, <1>2, <1>3, <1>4, <1>5


-----------------------------------------------------------------------------
(* The loop of populate_from: a small page for each page of the region.    *)
FillPage(w, start, v) ==
    IF w.err # "ok" THEN w
    ELSE IF NoSmall(w) THEN SetErr(w, "ENOMEM")
    ELSE MapRange(SetPage(TakeSmall(w), start, w.nextSmall), v, v + 1, w.nextSmall)

FillSteps(h, m, start, n) ==
    /\ h = [k \in 0..n |-> h[k]]
    /\ h[0] = m
    /\ \A k \in 1..n : h[k] = FillPage(h[k - 1], start, start + k - 1)

(* VMAddressSpace::populate_from.                                          *)
LEMMA PopulateFromOutcome ==
    LeastNumber =>
      \A m, start, end :
          /\ Ready(m, start, end)
          /\ start < end
          =>
          LET x == PopulateFrom(m, start, end)
          IN  Outcome(m, x, start, end) /\ (RxUnused(m) => RxUnused(x))
<1> HAVE LeastNumber
<1>GrownWider. ASSUME NEW m, NEW x, NEW a \in Nat, NEW b \in Nat, NEW start \in Nat, NEW end \in Nat,
                      Grown(m, x, a, b), start <= a, b <= end
               PROVE  Grown(m, x, start, end)
  <2> USE <1>GrownWider
  <2>1. \A v \in Nat : a <= v /\ v < b => start <= v /\ v < end
    OBVIOUS
  <2> QED
    BY <2>1 DEF Grown
<1>FillStepsExist. ASSUME NEW n \in Nat, NEW m, NEW start
                   PROVE  \E h : FillSteps(h, m, start, n)
  <2> USE <1>FillStepsExist
  <2> DEFINE Good(k) == \E h : FillSteps(h, m, start, k)
  <2> SUFFICES ASSUME ~Good(n) PROVE FALSE
    OBVIOUS
  <2> HIDE DEF Good
  <2>1. PICK k \in 0..n : ~Good(k) /\ \A j \in 0..n : j < k => Good(j)
    <3> DEFINE Bad == {j \in 0..n : ~Good(j)}
    <3>1. Bad \in SUBSET Nat /\ Bad # {}
      OBVIOUS
    <3>2. PICK k \in Bad : \A j \in Bad : k <= j
      BY <3>1, Zenon DEF LeastNumber
    <3> QED
      BY ONLY <3>2, <1>FillStepsExist
  <2>2. k # 0
    <3>1. FillSteps([j \in 0..0 |-> m], m, start, 0)
      BY DEF FillSteps
    <3> QED
      BY <2>1, <3>1 DEF Good
  <2>3. k \in Nat /\ k - 1 \in 0..n /\ k - 1 < k
    BY <2>1, <2>2
  <2>4. PICK g : FillSteps(g, m, start, k - 1)
    BY <2>1, <2>3 DEF Good
  <2> DEFINE e == [j \in 0..k |-> IF j < k THEN g[j]
                                  ELSE FillPage(g[k - 1], start, start + k - 1)]
  <2>5. e = [j \in 0..k |-> e[j]]
    OBVIOUS
  <2>6. e[0] = m
    BY <2>2, <2>3, <2>4 DEF FillSteps
  <2>7. \A j \in 1..k : e[j] = FillPage(e[j - 1], start, start + j - 1)
    <3> TAKE j \in 1..k
    <3>1. j - 1 \in 0..k /\ j \in 0..k /\ j - 1 < k
      BY <2>3
    <3>2. e[j - 1] = g[j - 1]
      BY <3>1
    <3>3. CASE j = k
      BY <3>1, <3>2, <3>3
    <3>4. CASE j # k
      <4>1. j < k /\ j \in 1..(k - 1)
        BY <2>3, <3>4
      <4>2. e[j] = g[j]
        BY <3>1, <4>1
      <4> QED
        BY <2>4, <3>2, <4>1, <4>2, Zenon DEF FillSteps
    <3> QED
      BY <3>3, <3>4
  <2>8. FillSteps(e, m, start, k)
    <3> HIDE DEF e
    <3> QED
      BY <2>5, <2>6, <2>7, Zenon DEF FillSteps
  <2> QED
    BY <2>1, <2>8 DEF Good
<1>PopulateFromIs. ASSUME NEW m, NEW start \in Nat, NEW end \in Nat, start < end
                   PROVE  \E h : /\ FillSteps(h, m, start, end - start)
                                 /\ PopulateFrom(m, start, end) = Done(h[end - start], start, end)
  <2> USE <1>PopulateFromIs
  <2> DEFINE n == end - start
             F(g) == [k \in 0..(end - start) |->
                        IF k = 0 THEN m
                        ELSE LET w == g[k - 1]
                                 v == start + k - 1
                             IN  IF w.err # "ok" THEN w
                                 ELSE IF NoSmall(w) THEN [w EXCEPT !.err = "ENOMEM"]
                                 ELSE MapRange(SetPage(TakeSmall(w), start, w.nextSmall),
                                               v, v + 1, w.nextSmall)]
             h == CHOOSE g : g = F(g)
  <2>0. n \in Nat
    OBVIOUS
  <2>1. PICK e : FillSteps(e, m, start, n)
    BY <2>0, <1>FillStepsExist
  <2>2. e = F(e)
    <3>1. e = [k \in 0..n |-> e[k]] /\ e[0] = m
      BY <2>1 DEF FillSteps
    <3>2. \A k \in 0..n : k # 0 => k \in 1..n
      OBVIOUS
    <3>3. \A k \in 0..n : e[k] = F(e)[k]
      BY <2>1, <3>1, <3>2, Zenon DEF FillSteps, FillPage, SetErr
    <3> QED
      BY <3>1, <3>3, Zenon
  <2>3. h = F(h)
    <3> HIDE DEF F
    <3> QED
      BY <2>2
  <2>4. PopulateFrom(m, start, end) = Done(h[end - start], start, end)
    BY DEF PopulateFrom
  <2> HIDE DEF h
  <2>5. FillSteps(h, m, start, n)
    <3>1. h = [k \in 0..n |-> h[k]]
      BY <2>3
    <3>2. h[0] = m
      BY <2>3
    <3>3. \A k \in 1..n : h[k] = FillPage(h[k - 1], start, start + k - 1)
      <4> TAKE k \in 1..n
      <4>1. k \in 0..n /\ k # 0
        OBVIOUS
      <4>2. h[k] = F(h)[k]
        BY <2>3, Zenon
      <4> QED
        BY <4>1, <4>2 DEF FillPage, SetErr
    <3> QED
      BY <3>1, <3>2, <3>3, Zenon DEF FillSteps
  <2> QED
    BY <2>4, <2>5
<1>FillStep. ASSUME NEW w, NEW start \in Nat, NEW v \in Nat, Sound(w), w.err = "ok",
                    ~IsMapped(w, v)
             PROVE  LET x == FillPage(w, start, v)
                    IN  /\ Grown(w, x, v, v + 1)
                        /\ x.err = "ok" => AllMapped(x, v, v + 1)
                        /\ RxUnused(w) => RxUnused(x)
  <2> USE <1>FillStep
  <2> DEFINE x == FillPage(w, start, v)
  <2> SUFFICES /\ Grown(w, x, v, v + 1)
               /\ x.err = "ok" => AllMapped(x, v, v + 1)
               /\ RxUnused(w) => RxUnused(x)
    OBVIOUS
  <2>0. w \in VM /\ LargePages \in Nat /\ LargePages > 1
    BY Consts DEF Sound
  <2>1. CASE NoSmall(w)
    <3>1. x = SetErr(w, "ENOMEM")
      BY <2>1 DEF FillPage
    <3>2. /\ x \in VM /\ SamePages(w, x) /\ x.err = "ENOMEM"
          /\ x.last = w.last /\ x.regions = w.regions
      BY <2>0, <3>1, ErrFields, NextTypes DEF SamePages, Errors
    <3> HIDE DEF x
    <3>3. Grown(w, x, v, v + 1) /\ SameTranslation(w, x)
      BY <3>2, SameGrown, SoundKept
    <3> QED
      BY <3>2, <3>3 DEF SameTranslation
  <2>2. CASE ~NoSmall(w)
    <3> DEFINE t == TakeSmall(w)
               f == w.nextSmall
               s == SetPage(t, start, f)
    <3>1. x = MapRange(s, v, v + 1, f)
      BY <2>2 DEF FillPage
    <3>2. f \in Nat /\ f > 0 /\ w.nextLarge \in Nat
      BY <2>0, NextTypes
    <3>3. /\ t \in VM /\ t.err = w.err /\ t.ptes = w.ptes /\ t.pdes = w.pdes
          /\ t.tables = w.tables /\ t.last = w.last /\ t.regions = w.regions
          /\ t.nextSmall = f + 1 /\ t.nextLarge = w.nextLarge
      BY <2>0, <2>2, TakeSmallFields
    <3> HIDE DEF t
    <3>4. /\ s \in VM /\ SamePages(t, s) /\ s.err = t.err
          /\ s.last = t.last /\ s.regions = t.regions
          /\ s.nextSmall = t.nextSmall /\ s.nextLarge = t.nextLarge
      BY <3>2, <3>3, SetPageFields, Zenon
    <3> HIDE DEF s, x
    <3>5. SamePages(w, s)
      BY <3>2, <3>3, <3>4 DEF SamePages
    <3>6. Grown(w, s, v, v + 1) /\ Sound(s) /\ SameTranslation(w, s)
      BY <3>3, <3>4, <3>5, SameGrown, SoundKept
    <3>7. FreshFrames(s, f, (v + 1) - v)
      <4>1. (v + 1) - v = 1
        OBVIOUS
      <4>2. FreshFrames(s, f, 1)
        BY <2>2, <3>3, <3>4, <3>5, SmallFrameFresh
      <4> QED
        BY <4>1, <4>2
    <3>8. MapPre(s, v, v + 1, f)
      <4>1. \A u \in v..(v + 1 - 1) : ~IsMapped(s, u)
        <5> TAKE u \in v..(v + 1 - 1)
        <5>1. u = v
          OBVIOUS
        <5> QED
          BY <3>6, <5>1 DEF SameTranslation
      <4>2. \A k \in s.tables : ~Whole(k, v, v + 1)
        <5> TAKE k \in s.tables
        <5>1. k * LargePages \in Nat
          BY <2>0, <3>4, TimesNat DEF VM
        <5> DEFINE p == k * LargePages
        <5>2. Whole(k, v, v + 1) => v <= p /\ p + LargePages <= v + 1
          BY DEF Whole
        <5>3. p \in Nat
          BY <5>1
        <5> HIDE DEF p
        <5> QED
          BY <2>0, <5>2, <5>3
      <4>3. s.err = "ok" /\ Structured(s) /\ v + 1 \in Nat
        BY <3>3, <3>4, <3>6 DEF Sound
      <4> QED
        BY <3>2, <3>4, <4>1, <4>2, <4>3 DEF MapPre
    <3>9. /\ Grown(s, x, v, v + 1)
          /\ x.err = "ok" => AllMapped(x, v, v + 1)
          /\ RxUnused(s) /\ f > 0 => RxUnused(x)
      BY <3>1, <3>6, <3>7, <3>8, RangeGrown
    <3>10. Grown(w, x, v, v + 1)
      BY <3>6, <3>9, GrownTwice
    <3> QED
      BY <3>2, <3>6, <3>9, <3>10 DEF SameTranslation
  <2> QED
    BY <2>1, <2>2
<1> TAKE m, start, end
<1> HAVE /\ Ready(m, start, end)
         /\ start < end
<1> DEFINE n == end - start
<1>0. start \in Nat /\ end \in Nat /\ n \in Nat /\ Sound(m) /\ m.err = "ok" /\ m \in VM
  BY DEF Ready, Sound
<1>1. PICK h : /\ FillSteps(h, m, start, n)
               /\ PopulateFrom(m, start, end) = Done(h[n], start, end)
  BY <1>0, <1>PopulateFromIs
<1> DEFINE Good(k) ==
             /\ Grown(m, h[k], start, end)
             /\ h[k].err = "ok" => AllMapped(h[k], start, start + k)
             /\ \A v \in Nat : start + k <= v /\ v < end => ~IsMapped(h[k], v)
             /\ RxUnused(m) => RxUnused(h[k])
<1>2. \A k \in 0..n : Good(k)
  <2> SUFFICES ASSUME NEW b \in 0..n, ~Good(b) PROVE FALSE
    OBVIOUS
  <2> HIDE DEF Good
  <2>1. PICK k \in 0..n : ~Good(k) /\ \A j \in 0..n : j < k => Good(j)
    <3> DEFINE Bad == {j \in 0..n : ~Good(j)}
    <3>1. Bad \in SUBSET Nat /\ Bad # {}
      BY <1>0
    <3>2. PICK k \in Bad : \A j \in Bad : k <= j
      BY <3>1, Zenon DEF LeastNumber
    <3> QED
      BY ONLY <3>2, <1>0
  <2>2. k # 0
    <3>1. h[0] = m
      BY <1>1 DEF FillSteps
    <3>2. SamePages(m, m)
      BY <1>0, NextTypes DEF SamePages
    <3>3. Grown(m, m, start, end)
      BY <1>0, <3>2, SameGrown
    <3>4. AllMapped(m, start, start + 0)
      BY <1>0 DEF AllMapped
    <3>5. \A v \in Nat : start + 0 <= v /\ v < end => ~IsMapped(m, v)
      BY <1>0 DEF Ready
    <3>6. Good(0)
      BY <3>1, <3>3, <3>4, <3>5 DEF Good
    <3> QED
      BY <2>1, <3>6
  <2>3. k \in 1..n /\ k - 1 \in 0..n /\ k - 1 < k
    BY <1>0, <2>1, <2>2
  <2>4. Good(k - 1)
    BY <2>1, <2>3
  <2> DEFINE w == h[k - 1]
             x == h[k]
             v == start + k - 1
  <2>5. x = FillPage(w, start, v)
    BY <1>1, <2>3, Zenon DEF FillSteps
  <2>6. /\ v \in Nat /\ start <= v /\ v < end /\ start + (k - 1) = v
        /\ v + 1 = start + k /\ v + 1 \in Nat /\ v + 1 <= end
    BY ONLY <1>0, <2>3
  <2>7. /\ Grown(m, w, start, end)
        /\ w.err = "ok" => AllMapped(w, start, v)
        /\ \A u \in Nat : v <= u /\ u < end => ~IsMapped(w, u)
        /\ RxUnused(m) => RxUnused(w)
    BY <2>4, <2>6 DEF Good
  <2> HIDE DEF w, x, v
  <2> SUFFICES /\ Grown(m, x, start, end)
               /\ x.err = "ok" => AllMapped(x, start, v + 1)
               /\ \A u \in Nat : v + 1 <= u /\ u < end => ~IsMapped(x, u)
               /\ RxUnused(m) => RxUnused(x)
    <3>1. Good(k)
      BY <2>6 DEF Good, x
    <3> QED
      BY <2>1, <3>1
  <2>8. CASE w.err # "ok"
    <3>1. x = w
      BY <2>5, <2>8 DEF FillPage
    <3> QED
      BY <2>6, <2>7, <2>8, <3>1
  <2>9. CASE w.err = "ok"
    <3>1. Sound(w) /\ ~IsMapped(w, v)
      BY <2>6, <2>7 DEF Grown
    <3>2. /\ Grown(w, x, v, v + 1)
          /\ x.err = "ok" => AllMapped(x, v, v + 1)
          /\ RxUnused(w) => RxUnused(x)
      BY <1>0, <2>5, <2>6, <2>9, <3>1, <1>FillStep, Zenon
    <3>3. Grown(w, x, start, end)
      BY <1>0, <2>6, <3>2, <1>GrownWider, Zenon
    <3>4. Grown(m, x, start, end)
      BY <2>7, <3>3, GrownTwice, Zenon
    <3>5. x.err = "ok" => AllMapped(x, start, v + 1)
      <4> SUFFICES ASSUME x.err = "ok", NEW u \in Nat, start <= u, u < v + 1
                   PROVE  IsMapped(x, u)
        BY DEF AllMapped
      <4>1. CASE u < v
        <5>1. IsMapped(w, u)
          BY <2>7, <2>9, <4>1 DEF AllMapped
        <5> QED
          BY <3>2, <5>1, Zenon DEF Grown, Stays
      <4>2. CASE u = v
        BY <2>6, <3>2, <4>2 DEF AllMapped
      <4> QED
        BY <2>6, <4>1, <4>2
    <3>6. \A u \in Nat : v + 1 <= u /\ u < end => ~IsMapped(x, u)
      <4> TAKE u \in Nat
      <4> HAVE v + 1 <= u /\ u < end
      <4>1. v <= u /\ ~(u < v + 1)
        BY <2>6
      <4>2. ~IsMapped(w, u)
        BY <2>7, <4>1
      <4> QED
        BY <3>2, <4>1, <4>2 DEF Grown
    <3> QED
      BY <2>7, <3>2, <3>4, <3>5, <3>6
  <2> QED
    BY <2>8, <2>9
<1>3. Good(n)
  BY <1>0, <1>2
<1>4. start + n = end
  BY <1>0
<1>5. Grown(m, h[n], start, end) /\ (h[n].err = "ok" => AllMapped(h[n], start, end))
      /\ (RxUnused(m) => RxUnused(h[n]))
  BY <1>3, <1>4
<1> QED
  BY <1>0, <1>1, <1>5, DoneOutcome


-----------------------------------------------------------------------------
(* Regions: what allocate_fixed and allocate add, and what an operation on *)
(* a region leaves.                                                        *)
Space(m) == RegionsApart(m) /\ PopulatedMapped(m) /\ Owned(m)

InsertResult(m, y, start, end) ==
    /\ Sound(y) /\ Space(y) /\ SameTranslation(m, y)
    /\ y.err # "ok" => y.regions = m.regions
    /\ y.err = "ok" => /\ Ready(y, start, end) /\ y.last = start
                       /\ y.regions = m.regions \union {Region(start, end, FALSE)}
                       /\ start < end => Region(start, end, FALSE) \notin m.regions

LEMMA RegionFields ==
    ASSUME NEW a \in Nat, NEW b \in Nat, NEW p \in BOOLEAN
    PROVE  /\ Region(a, b, p) \in Regions /\ Region(a, b, p).start = a
           /\ Region(a, b, p).end = b /\ Region(a, b, p).populated = p
  BY DEF Region, Regions

LEMMA RegionTypes ==
    ASSUME NEW m \in VM, NEW r \in m.regions
    PROVE  r \in Regions /\ r.start \in Nat /\ r.end \in Nat /\ r.populated \in BOOLEAN
<1>1. r \in Regions
  BY DEF VM
<1> QED
  BY <1>1 DEF Regions

LEMMA InsertSpace ==
    \A m : \A start, end \in Nat :
        /\ Sound(m)
        /\ Space(m)
        /\ m.err = "ok"
        /\ start <= end
        /\ \A r \in m.regions : r.end <= start \/ (start < end /\ end <= r.start)
        =>
        InsertResult(m, Insert(m, start, end), start, end)
<1>RegionIs. ASSUME NEW r \in Regions, NEW a \in Nat, NEW b \in Nat,
                    r.start = a, r.end = b, ~r.populated
             PROVE  r = Region(a, b, FALSE)
  BY <1>RegionIs DEF Region, Regions
<1> TAKE m
<1> TAKE start, end \in Nat
<1> HAVE /\ Sound(m)
         /\ Space(m)
         /\ m.err = "ok"
         /\ start <= end
         /\ \A r \in m.regions : r.end <= start \/ (start < end /\ end <= r.start)
<1> DEFINE y == Insert(m, start, end)
           n == Region(start, end, FALSE)
<1>0. m \in VM
  BY DEF Sound
<1>n. n \in Regions /\ n.start = start /\ n.end = end /\ n.populated = FALSE
  BY RegionFields, Zenon
<1>t. \A r \in m.regions : r \in Regions /\ r.start \in Nat /\ r.end \in Nat /\ r.start <= r.end
  BY <1>0, RegionTypes DEF Space, RegionsApart
<1>1. CASE \E r \in m.regions : start <= r.start /\ r.start < end
  <2>1. y = SetErr(m, "EINVAL")
    BY <1>1 DEF Insert, SetErr
  <2>2. /\ y \in VM /\ SamePages(m, y) /\ y.err = "EINVAL" /\ y.regions = m.regions
    BY <1>0, <2>1, ErrFields, NextTypes DEF SamePages, Errors
  <2> HIDE DEF y
  <2>3. Sound(y) /\ SameTranslation(m, y)
    BY <2>2, SoundKept
  <2>4. Space(y)
    BY <2>2, <2>3 DEF Space, RegionsApart, PopulatedMapped, Owned, SameTranslation, SamePages
  <2> QED
    BY <2>2, <2>3, <2>4 DEF InsertResult, y
<1>2. CASE ~\E r \in m.regions : start <= r.start /\ r.start < end
  <2>1. y = [m EXCEPT !.regions = @ \union {n}, !.last = start]
    BY <1>2 DEF Insert
  <2> HIDE DEF n
  <2>2. m.regions \union {n} \in SUBSET Regions
    BY <1>0, <1>n DEF VM
  <2>3. /\ y \in VM /\ SamePages(m, y) /\ y.err = "ok"
        /\ y.regions = m.regions \union {n} /\ y.last = start
    <3> DEFINE R == m.regions \union {n}
    <3>1. y = [m EXCEPT !.regions = R, !.last = start] /\ R \in SUBSET Regions
      BY <2>1, <2>2
    <3> HIDE DEF R, y
    <3>2. y \in VM
      BY <1>0, <3>1, Zenon DEF VM
    <3>3. /\ y.regions = R /\ y.last = start /\ y.err = m.err
          /\ y.ptes = m.ptes /\ y.pdes = m.pdes /\ y.tables = m.tables
          /\ y.nextSmall = m.nextSmall /\ y.nextLarge = m.nextLarge
      BY <1>0, <3>1 DEF VM
    <3> QED
      BY <1>0, <3>2, <3>3, NextTypes DEF SamePages, R
  <2> HIDE DEF y
  <2>4. Sound(y) /\ SameTranslation(m, y)
    BY <2>3, SoundKept
  <2>5. \A r \in m.regions : \/ r = n
                             \/ Apart(r, n) /\ Apart(n, r) /\ r.start # start
    <3> TAKE r \in m.regions
    <3>1. /\ r \in Regions /\ r.start \in Nat /\ r.end \in Nat /\ r.start <= r.end
          /\ r.start = r.end => ~r.populated
      BY <1>t DEF Space, RegionsApart
    <3>2. r.end <= start \/ (start < end /\ end <= r.start)
      OBVIOUS
    <3>3. Apart(r, n) /\ Apart(n, r)
      BY <1>n, <3>2 DEF Apart
    <3>4. CASE r.start = start
      <4>1. r.end = start /\ end = start
        BY <1>2, <3>1, <3>2, <3>4
      <4>2. r = n
        BY <3>1, <3>4, <4>1, <1>RegionIs, Zenon DEF n
      <4> QED
        BY <4>2
    <3> QED
      BY <3>3, <3>4
  <2>6. RegionsApart(y)
    <3>1. \A r \in y.regions : r.start <= r.end /\ (r.start = r.end => ~r.populated)
      BY <1>n, <2>3 DEF Space, RegionsApart
    <3>2. \A q, r \in y.regions : q # r => Apart(q, r) /\ q.start # r.start
      BY <1>n, <2>3, <2>5 DEF Space, RegionsApart
    <3> QED
      BY <3>1, <3>2 DEF RegionsApart
  <2>7. PopulatedMapped(y)
    BY <1>n, <2>3, <2>4, Zenon DEF Space, PopulatedMapped, SameTranslation
  <2>8. Owned(y)
    BY <2>3, <2>4 DEF Space, Owned, SameTranslation, SamePages
  <2>9. \A v \in Nat : (\E r \in m.regions : Within(r, v)) => ~(start <= v /\ v < end)
    <3> SUFFICES ASSUME NEW v \in Nat, NEW r \in m.regions, Within(r, v)
                 PROVE  ~(start <= v /\ v < end)
      OBVIOUS
    <3>1. r.end <= start \/ end <= r.start
      OBVIOUS
    <3> QED
      BY <1>t, <3>1 DEF Within
  <2>10. Ready(y, start, end)
    <3>1. \A v \in Nat : start <= v /\ v < end => ~IsMapped(y, v)
      BY <2>4, <2>9 DEF Space, Owned, SameTranslation
    <3>2. \A k \in y.tables : ~Whole(k, start, end)
      <4> SUFFICES ASSUME NEW k \in y.tables, Whole(k, start, end) PROVE FALSE
        OBVIOUS
      <4>1. PICK v \in Nat : Block(v) = k /\ \E r \in m.regions : Within(r, v)
        BY <2>3 DEF Space, Owned, SamePages
      <4> DEFINE p == k * LargePages
      <4>2. /\ v % LargePages \in 0..(LargePages - 1) /\ p \in Nat
            /\ v = p + (v % LargePages)
        BY <4>1, BlockFacts
      <4>3. start <= p /\ p + LargePages <= end
        BY DEF Whole
      <4> HIDE DEF p
      <4>4. start <= v /\ v < end
        BY <4>2, <4>3, Consts
      <4> QED
        BY <2>9, <4>1, <4>4
    <3> QED
      BY <2>3, <2>4, <3>1, <3>2 DEF Ready
  <2>11. start < end => n \notin m.regions
    BY <1>2, <1>n
  <2> QED
    BY <2>3, <2>4, <2>6, <2>7, <2>8, <2>10, <2>11, Zenon DEF InsertResult, Space, y, n
<1> QED
  BY <1>1, <1>2

LEMMA AllocateSpace ==
    LeastNumber =>
      \A m : \A B, size \in Nat, align \in Nat \ {0} :
          /\ Sound(m)
          /\ Space(m)
          /\ m.err = "ok"
          /\ \A r \in m.regions : r.end <= B
          =>
          \E s \in Nat : /\ InsertResult(m, Allocate(m, size, align), s, s + size)
                         /\ s < UpperEnd(m) + align /\ UpperEnd(m) \in Nat
                         /\ UpperEnd(m) <= B
<1> HAVE LeastNumber
<1>UpperEndFacts. ASSUME NEW m \in VM, RegionsApart(m), NEW B \in Nat,
                         \A r \in m.regions : r.end <= B
                  PROVE  /\ UpperEnd(m) \in Nat /\ UpperEnd(m) <= B
                         /\ \A r \in m.regions : r.end <= UpperEnd(m)
  <2> USE <1>UpperEndFacts
  <2>1. CASE m.regions = {}
    BY <2>1 DEF UpperEnd
  <2>2. CASE m.regions # {}
    <3>1. \A r \in m.regions : r.start \in Nat /\ r.end \in Nat /\ r.start <= r.end
      BY RegionTypes DEF RegionsApart
    <3>2. \E r \in m.regions : \A q \in m.regions : q.start <= r.start
      <4> DEFINE T == {B - r.start : r \in m.regions}
      <4>1. \A r \in m.regions : B - r.start \in Nat
        BY <3>1
      <4>2. T \subseteq Nat /\ T # {}
        BY <2>2, <4>1
      <4>3. PICK x \in T : \A z \in T : x <= z
        BY <4>2, Zenon DEF LeastNumber
      <4>4. PICK r \in m.regions : x = B - r.start
        OBVIOUS
      <4>5. \A q \in m.regions : q.start <= r.start
        <5> TAKE q \in m.regions
        <5>1. B - r.start <= B - q.start
          BY <4>3, <4>4
        <5> QED
          BY <3>1, <5>1
      <4> QED
        BY <4>5
    <3> DEFINE c == CHOOSE r \in m.regions : \A q \in m.regions : q.start <= r.start
    <3>3. c \in m.regions /\ \A q \in m.regions : q.start <= c.start
      BY <3>2
    <3>4. UpperEnd(m) = c.end
      BY <2>2 DEF UpperEnd
    <3> HIDE DEF c
    <3>5. \A q \in m.regions : q.end <= c.end
      <4> TAKE q \in m.regions
      <4>1. CASE q = c
        BY <3>1, <4>1
      <4>2. CASE q # c
        <5>1. Apart(q, c) /\ q.start # c.start /\ q.start <= c.start
          BY <3>3, <4>2 DEF RegionsApart
        <5> QED
          BY <3>1, <3>3, <5>1 DEF Apart
      <4> QED
        BY <4>1, <4>2
    <3> QED
      BY <3>1, <3>3, <3>4, <3>5
  <2> QED
    BY <2>1, <2>2
<1> TAKE m
<1> TAKE B, size \in Nat, align \in Nat \ {0}
<1> HAVE /\ Sound(m)
         /\ Space(m)
         /\ m.err = "ok"
         /\ \A r \in m.regions : r.end <= B
<1> DEFINE u == UpperEnd(m)
           s == AlignUp(u, align)
<1>0. m \in VM
  BY DEF Sound
<1>1. u \in Nat /\ u <= B /\ \A r \in m.regions : r.end <= u
  BY <1>0, <1>UpperEndFacts DEF Space
<1>2. s \in Nat /\ u <= s /\ s < u + align
  BY <1>1, AlignUpFacts
<1>3. Allocate(m, size, align) = Insert(m, s, s + size)
  BY DEF Allocate
<1>4. \A r \in m.regions : r.end <= s \/ (s < s + size /\ s + size <= r.start)
  <2> TAKE r \in m.regions
  <2>1. r.end \in Nat /\ r.end <= u
    BY <1>0, <1>1, RegionTypes
  <2> HIDE DEF u, s
  <2> QED
    BY <1>1, <1>2, <2>1
<1> HIDE DEF s
<1>5. InsertResult(m, Insert(m, s, s + size), s, s + size)
  <2>1. s + size \in Nat /\ s <= s + size
    BY <1>2
  <2> QED
    BY <1>2, <1>4, <2>1, InsertSpace
<1> QED
  BY <1>1, <1>2, <1>3, <1>5


(* A region is added and then operated on.                                 *)
Added(m, x, start, end) ==
    /\ Sound(x) /\ Space(x) /\ Stays(m, x)
    /\ \A r \in x.regions : \/ \E q \in m.regions : IsArea(r, q)
                            \/ r.start = start /\ r.end = end
    /\ x.err = "ok" => x.regions = m.regions \union {Region(start, end, TRUE)}

LEMMA AddedBy ==
    \A m, y, x : \A start, end \in Nat :
        /\ InsertResult(m, y, start, end)
        /\ y.err # "ok" => x = y
        /\ y.err = "ok" => Outcome(y, x, start, end)
        =>
        Added(m, x, start, end)
<1>OutcomeSpace. ASSUME NEW y, NEW x, NEW start \in Nat, NEW end \in Nat, Sound(y), Space(y),
                        Region(start, end, FALSE) \in y.regions, Outcome(y, x, start, end)
                 PROVE  /\ Space(x)
                        /\ \A r \in x.regions : \E q \in y.regions : IsArea(r, q)
  <2> USE <1>OutcomeSpace
  <2> DEFINE n == Region(start, end, FALSE)
             p == Region(start, end, TRUE)
  <2>0. y \in VM /\ n \in y.regions
    BY Zenon DEF Sound
  <2>1. /\ n.start = start /\ n.end = end /\ n.populated = FALSE
        /\ p.start = start /\ p.end = end /\ p.populated = TRUE
    BY RegionFields, Zenon
  <2>2. \/ x.regions = y.regions
        \/ /\ x.regions = (y.regions \ {n}) \union {p} /\ start < end
           /\ AllMapped(x, start, end)
    BY Zenon DEF Outcome
  <2> HIDE DEF n, p
  <2>3. \A r \in x.regions : \E q \in y.regions : IsArea(r, q)
    BY <2>0, <2>1, <2>2 DEF IsArea
  <2>4. \A q \in y.regions : \E r \in x.regions : IsArea(r, q)
    BY <2>1, <2>2 DEF IsArea
  <2>5. RegionsApart(x)
    <3>1. CASE x.regions = y.regions
      BY <3>1 DEF Space, RegionsApart
    <3>2. CASE x.regions = (y.regions \ {n}) \union {p} /\ start < end
      <4>1. \A r \in x.regions : r.start <= r.end /\ (r.start = r.end => ~r.populated)
        BY <2>1, <3>2 DEF Space, RegionsApart
      <4>2. \A r \in y.regions \ {n} :
               Apart(r, n) /\ Apart(n, r) /\ r.start # n.start
        BY <2>0 DEF Space, RegionsApart
      <4>3. \A r \in y.regions \ {n} :
               Apart(r, p) /\ Apart(p, r) /\ r.start # p.start
        BY <2>1, <4>2 DEF Apart
      <4>4. \A q, r \in x.regions : q # r => Apart(q, r) /\ q.start # r.start
        BY <3>2, <4>3 DEF Space, RegionsApart
      <4> QED
        BY <4>1, <4>4 DEF RegionsApart
    <3> QED
      BY <2>2, <3>1, <3>2
  <2>6. PopulatedMapped(x)
    <3>1. \A v \in Nat : IsMapped(y, v) => IsMapped(x, v)
      BY DEF Outcome, Stays
    <3> SUFFICES ASSUME NEW r \in x.regions, r.populated, NEW v \in Nat, Within(r, v)
                 PROVE  IsMapped(x, v)
      BY DEF PopulatedMapped
    <3>2. CASE r \in y.regions
      BY <3>1, <3>2 DEF Space, PopulatedMapped
    <3>3. CASE r = p /\ AllMapped(x, start, end)
      BY <2>1, <3>3 DEF Within, AllMapped
    <3> QED
      BY <2>2, <3>2, <3>3
  <2>7. Owned(x)
    <3>1. \A v \in Nat : (\E q \in y.regions : Within(q, v)) => \E r \in x.regions : Within(r, v)
      BY <2>4 DEF IsArea, Within
    <3>2. \A v \in Nat : start <= v /\ v < end => \E r \in x.regions : Within(r, v)
      BY <2>0, <2>1, <3>1 DEF Within
    <3>3. \A v \in Nat : IsMapped(x, v) => \E r \in x.regions : Within(r, v)
      BY <3>1, <3>2 DEF Outcome, Space, Owned
    <3>4. \A k \in x.tables : \E v \in Nat : Block(v) = k /\ \E r \in x.regions : Within(r, v)
      <4> TAKE k \in x.tables
      <4>1. CASE k \in y.tables
        BY <3>1, <4>1 DEF Space, Owned
      <4>2. CASE \E v \in Nat : Block(v) = k /\ start <= v /\ v < end
        BY <3>2, <4>2
      <4> QED
        BY <4>1, <4>2 DEF Outcome
    <3> QED
      BY <3>3, <3>4 DEF Owned
  <2> QED
    BY <2>3, <2>5, <2>6, <2>7 DEF Space
<1> TAKE m, y, x
<1> TAKE start, end \in Nat
<1> HAVE /\ InsertResult(m, y, start, end)
         /\ y.err # "ok" => x = y
         /\ y.err = "ok" => Outcome(y, x, start, end)
<1> DEFINE n == Region(start, end, FALSE)
           p == Region(start, end, TRUE)
<1>0. n.start = start /\ n.end = end
  BY RegionFields, Zenon
<1>s. Stays(m, y)
  BY SameStays, Zenon DEF InsertResult
<1>1. CASE y.err # "ok"
  <2>1. x = y /\ y.regions = m.regions /\ Sound(y) /\ Space(y) /\ Stays(m, x)
    BY <1>s, <1>1 DEF InsertResult
  <2> QED
    BY <1>1, <2>1, Zenon DEF Added, IsArea
<1>2. CASE y.err = "ok"
  <2>1. /\ Sound(y) /\ Space(y) /\ y.regions = m.regions \union {n}
        /\ start < end => n \notin m.regions
    BY <1>2, Zenon DEF InsertResult
  <2>2. Outcome(y, x, start, end)
    BY <1>2
  <2>3. Space(x) /\ \A r \in x.regions : \E q \in y.regions : IsArea(r, q)
    <3>1. Region(start, end, FALSE) \in y.regions
      BY <2>1
    <3> QED
      BY <2>1, <2>2, <3>1, <1>OutcomeSpace, Zenon
  <2>4. Sound(x) /\ (x.err = "ok" => /\ start < end
                                     /\ x.regions = (y.regions \ {n}) \union {p})
    BY <2>2, Zenon DEF Outcome
  <2>5. Stays(m, x)
    BY <1>s, <2>2, StaysTwice, Zenon DEF Outcome
  <2> HIDE DEF n, p
  <2>6. x.err = "ok" => x.regions = m.regions \union {p}
    BY <2>1, <2>4
  <2>7. \A r \in x.regions : \/ \E q \in m.regions : IsArea(r, q)
                             \/ r.start = start /\ r.end = end
    BY <1>0, <2>1, <2>3 DEF IsArea
  <2> QED
    BY <2>3, <2>4, <2>5, <2>6, <2>7, Zenon DEF Added, p
<1> QED
  BY <1>1, <1>2

LEMMA FreshFacts ==
    /\ VMInv
    /\ stage # "no process"
    =>
    /\ Fresh \in VM /\ Sound(Fresh) /\ Space(Fresh) /\ Fresh.err = "ok"
    /\ Fresh.regions = vm.regions /\ UpperEnd(Fresh) = UpperEnd(vm)
    /\ RxUnused(vm) => RxUnused(Fresh)
    /\ Stays(vm, Fresh)
<1>UpperEndSame. ASSUME NEW m, NEW w, w.regions = m.regions
                 PROVE  UpperEnd(w) = UpperEnd(m)
  <2> USE <1>UpperEndSame
  <2> DEFINE G(R) == IF R = {} THEN 0
                     ELSE (CHOOSE r \in R : \A q \in R : q.start <= r.start).end
  <2>1. UpperEnd(w) = G(w.regions) /\ UpperEnd(m) = G(m.regions)
    BY DEF UpperEnd
  <2> HIDE DEF G
  <2> QED
    BY <2>1
<1> HAVE /\ VMInv
         /\ stage # "no process"
<1>0. Sound(vm) /\ vm \in VM /\ Space(vm)
  BY Zenon DEF VMInv, Sound, Space
<1>1. Fresh = SetErr(vm, "ok")
  BY Zenon DEF Fresh, SetErr
<1>2. /\ Fresh \in VM /\ SamePages(vm, Fresh) /\ Fresh.err = "ok"
      /\ Fresh.regions = vm.regions
  <2>1. "ok" \in Errors
    BY Zenon DEF Errors
  <2>2. vm.nextSmall \in Nat /\ vm.nextLarge \in Nat
    BY <1>0, NextTypes, Zenon
  <2> DEFINE x == SetErr(vm, "ok")
  <2>3. /\ x \in VM /\ x.err = "ok" /\ x.regions = vm.regions
        /\ x.ptes = vm.ptes /\ x.pdes = vm.pdes /\ x.tables = vm.tables
        /\ x.nextSmall = vm.nextSmall /\ x.nextLarge = vm.nextLarge
    BY <1>0, <2>1, ErrFields, Zenon
  <2> HIDE DEF x
  <2>4. SamePages(vm, x)
    <3>1. vm.nextSmall <= x.nextSmall /\ vm.nextLarge <= x.nextLarge
      BY ONLY <2>2, <2>3
    <3> QED
      BY <2>3, <3>1, Zenon DEF SamePages
  <2>5. Fresh = x
    BY <1>1, Zenon DEF x
  <2> QED
    BY <2>3, <2>4, <2>5, Zenon
<1>3. Sound(Fresh) /\ SameTranslation(vm, Fresh)
  BY <1>0, <1>2, SoundKept, Zenon
<1>4. Space(Fresh)
  BY <1>0, <1>2, <1>3, Zenon DEF Space, RegionsApart, PopulatedMapped, Owned, SameTranslation,
                          SamePages
<1>5. UpperEnd(Fresh) = UpperEnd(vm)
  BY <1>2, <1>UpperEndSame, Zenon
<1>6. Stays(vm, Fresh)
  BY <1>3, SameStays, Zenon
<1> QED
  BY <1>2, <1>3, <1>4, <1>5, <1>6, Zenon DEF SameTranslation

(* The invariant, once the next address space is known.                    *)
LEMMA InvFrom ==
    ASSUME Sound(vm'), RegionsApart(vm'), PopulatedMapped(vm'),
           stage' \in {"running", "acquired", "panicked", "no process"},
           stage' # "no process" => Owned(vm'),
           stage' = "running" => RxUnused(vm'),
           \A r \in vm'.regions :
              r.end <= MaxAddr + (IF stage' = "acquired" THEN 2 ELSE 0)
    PROVE  VMInv'
  BY Zenon DEF VMInv, SpawnProgress

LEMMA SegmentFacts ==
    \A i \in 1..Len(Segments) :
        /\ Segments[i].start \in Nat /\ Segments[i].end \in Nat
        /\ Segments[i].start < Segments[i].end /\ Segments[i].end <= MaxAddr
        /\ SegmentRegion(i).start = Segments[i].start
        /\ SegmentRegion(i).end = Segments[i].end
        /\ Apart(Segments[i], Stack) /\ Apart(Segments[i], Events)
        /\ \A j \in 1..Len(Segments) : i # j => Apart(Segments[i], Segments[j])
<1>MemberOfSeq. ASSUME NEW S, NEW s \in Seq(S), NEW i \in 1..Len(s)
                PROVE  s[i] \in S
  BY <1>MemberOfSeq
<1> TAKE i \in 1..Len(Segments)
<1>1. Segments[i] \in [start : Nat, end : Nat]
  BY VMAssumption, <1>MemberOfSeq, Zenon
<1> QED
  BY <1>1, LayoutAssumption DEF SegmentRegion, Region

LEMMA AreaFacts ==
    /\ Stack.start = StackTop - LargePages /\ Stack.end = StackTop
    /\ Events.start = EventBuf /\ Events.end = EventBuf + 1
    /\ Stack.start \in Nat /\ Stack.end \in Nat /\ Stack.start < Stack.end
    /\ Events.start \in Nat /\ Events.end \in Nat /\ Events.start < Events.end
    /\ Stack.end <= MaxAddr /\ Events.end <= MaxAddr /\ Apart(Stack, Events)
<1>1. StackTop \in LargePages..MaxAddr /\ EventBuf \in 0..(MaxAddr - 1)
      /\ Apart(Stack, Events)
  BY LayoutAssumption
<1> QED
  BY <1>1, Consts DEF Stack, Events


-----------------------------------------------------------------------------
(* The actions.                                                            *)
LEMMA FixedAdded ==
    ASSUME LeastNumber, NEW m, Sound(m), Space(m), m.err = "ok",
           NEW start \in Nat, NEW end \in Nat, start < end,
           \A r \in m.regions : r.end <= start \/ end <= r.start,
           NEW x,
           LET y == AllocateFixed(m, start, end)
           IN  x = IF y.err = "ok" THEN Populate(y, start, end) ELSE y
    PROVE  Added(m, x, start, end) /\ (RxUnused(m) => RxUnused(x))
<1> DEFINE y == AllocateFixed(m, start, end)
<1>1. InsertResult(m, y, start, end)
  <2>1. start <= end
    OBVIOUS
  <2>2. \A r \in m.regions : r.end <= start \/ (start < end /\ end <= r.start)
    OBVIOUS
  <2> QED
    BY <2>1, <2>2, InsertSpace, Zenon DEF AllocateFixed
<1>2. /\ y.err # "ok" => x = y
      /\ y.err = "ok" => x = Populate(y, start, end)
  OBVIOUS
<1> HIDE DEF y
<1>3. y.err = "ok" => Outcome(y, x, start, end) /\ (RxUnused(y) => RxUnused(x))
  BY <1>1, <1>2, PopulateOutcome DEF InsertResult
<1>4. Added(m, x, start, end)
  BY <1>1, <1>2, <1>3, AddedBy
<1>5. RxUnused(m) => RxUnused(x)
  BY <1>1, <1>2, <1>3, Zenon DEF InsertResult, SameTranslation
<1> QED
  BY <1>4, <1>5

LEMMA LoadStep ==
    LeastNumber => (VMInv /\ LoadSegment => VMInv' /\ Stays(vm, vm'))
<1> HAVE LeastNumber
<1>LoadedAdded. ASSUME NEW m, Sound(m), Space(m), m.err = "ok",
                       NEW start \in Nat, NEW end \in Nat, start < end,
                       \A r \in m.regions : r.end <= start \/ end <= r.start,
                       NEW x,
                       LET y == AllocateFixed(m, start, end)
                       IN  x = IF y.err = "ok" THEN PopulateFrom(y, start, end) ELSE y
                PROVE  Added(m, x, start, end) /\ (RxUnused(m) => RxUnused(x))
  <2> USE <1>LoadedAdded
  <2> DEFINE y == AllocateFixed(m, start, end)
  <2>1. InsertResult(m, y, start, end)
    <3>1. start <= end
      OBVIOUS
    <3>2. \A r \in m.regions : r.end <= start \/ (start < end /\ end <= r.start)
      OBVIOUS
    <3> QED
      BY <3>1, <3>2, InsertSpace DEF AllocateFixed
  <2>2. /\ y.err # "ok" => x = y
        /\ y.err = "ok" => x = PopulateFrom(y, start, end)
    OBVIOUS
  <2> HIDE DEF y
  <2>3. y.err = "ok" => Outcome(y, x, start, end) /\ (RxUnused(y) => RxUnused(x))
    BY <2>1, <2>2, PopulateFromOutcome DEF InsertResult
  <2>4. Added(m, x, start, end)
    BY <2>1, <2>2, <2>3, AddedBy
  <2>5. RxUnused(m) => RxUnused(x)
    BY <2>1, <2>2, <2>3, Zenon DEF InsertResult, SameTranslation
  <2> QED
    BY <2>4, <2>5
<1> HAVE VMInv /\ LoadSegment
<1> DEFINE i == loaded + 1
           s == Segments[i]
           y == AllocateFixed(Fresh, s.start, s.end)
           n == SegmentRegion(i)
<1>0. /\ stage = "segments" /\ loaded < Len(Segments)
      /\ vm' = (IF y.err = "ok" THEN PopulateFrom(y, s.start, s.end) ELSE y)
      /\ stage' = IF vm'.err = "ok" THEN "segments" ELSE "panicked"
      /\ loaded' = loaded + 1
  BY DEF LoadSegment, OnSuccess
<1>1. /\ loaded \in 0..Len(Segments)
      /\ vm.regions = {SegmentRegion(j) : j \in 1..loaded}
  BY <1>0 DEF VMInv, SpawnProgress
<1>2. loaded \in Nat /\ Len(Segments) \in Nat
  BY <1>1, VMAssumption
<1>3. i \in 1..Len(Segments) /\ \A j \in 1..loaded : j \in 1..Len(Segments) /\ j # i
  BY <1>0, <1>2
<1> HIDE DEF i
<1>4. /\ s.start \in Nat /\ s.end \in Nat /\ s.start < s.end /\ s.end <= MaxAddr
      /\ n.start = s.start /\ n.end = s.end
  BY <1>3, SegmentFacts
<1>5. \A r \in vm.regions : r.end <= s.start \/ s.end <= r.start
  <2> TAKE r \in vm.regions
  <2>1. PICK j \in 1..loaded : r = SegmentRegion(j)
    BY <1>1
  <2>2. /\ r.start = Segments[j].start /\ r.end = Segments[j].end
        /\ Apart(Segments[j], s)
    BY <1>3, <2>1, SegmentFacts
  <2>3. r.end <= s.start \/ s.end <= r.start
    BY <2>2 DEF Apart
  <2> QED
    BY <1>4, <2>3
<1>6. /\ Sound(Fresh) /\ Space(Fresh) /\ Fresh.err = "ok" /\ Fresh.regions = vm.regions
      /\ RxUnused(vm) => RxUnused(Fresh)
      /\ Stays(vm, Fresh)
  BY <1>0, FreshFacts
<1>7. Added(Fresh, vm', s.start, s.end) /\ (RxUnused(Fresh) => RxUnused(vm'))
  <2> DEFINE a == s.start
             b == s.end
  <2>1. \A r \in Fresh.regions : r.end <= a \/ b <= r.start
    BY <1>5, <1>6
  <2>2. LET w == AllocateFixed(Fresh, a, b)
        IN  vm' = IF w.err = "ok" THEN PopulateFrom(w, a, b) ELSE w
    BY <1>0
  <2>3. a \in Nat /\ b \in Nat /\ a < b
    BY <1>4
  <2> HIDE DEF a, b
  <2>4. Added(Fresh, vm', a, b) /\ (RxUnused(Fresh) => RxUnused(vm'))
    BY <1>6, <2>1, <2>2, <2>3, <1>LoadedAdded
  <2> QED
    BY <2>4 DEF a, b
<1>8. RxUnused(vm')
  BY <1>0, <1>6, <1>7, Zenon DEF VMInv
<1>9. /\ Sound(vm') /\ Space(vm')
      /\ \A r \in vm'.regions : \/ \E q \in vm.regions : IsArea(r, q)
                                \/ r.start = s.start /\ r.end = s.end
      /\ vm'.err = "ok" => vm'.regions = vm.regions \union {n}
  BY <1>6, <1>7, Zenon DEF Added, SegmentRegion
<1> HIDE DEF s, n
<1>10. \A r \in vm'.regions : r.end <= MaxAddr
  <2>1. \A r \in vm.regions : r.end <= MaxAddr
    <3>1. \A r \in vm.regions : r.end <= MaxAddr + 0 /\ r.end \in Nat
      BY <1>0, RegionTypes DEF VMInv, Sound
    <3> QED
      BY <3>1, Consts
  <2> QED
    BY <1>4, <1>9, <2>1 DEF IsArea
<1>11. MaxAddr + 0 = MaxAddr
  BY Consts
<1> SUFFICES VMInv'
  BY <1>6, <1>7, StaysTwice, Zenon DEF Added
<1>12. CASE vm'.err # "ok"
  <2>1. stage' = "panicked"
    BY <1>0, <1>12
  <2> QED
    BY <1>9, <1>10, <1>11, <2>1, InvFrom DEF Space
<1>13. CASE vm'.err = "ok"
  <2>1. stage' = "segments" /\ vm'.regions = vm.regions \union {n}
    BY <1>0, <1>9, <1>13
  <2>2. loaded' \in 0..Len(Segments)
    BY <1>0, <1>2
  <2>5. vm'.regions = {SegmentRegion(j) : j \in 1..(loaded + 1)}
    <3>1. \A j : j \in 1..(loaded + 1) <=> j \in 1..loaded \/ j = loaded + 1
      BY <1>2
    <3>2. n = SegmentRegion(loaded + 1)
      BY DEF n, i
    <3> QED
      BY <1>1, <2>1, <3>1, <3>2
  <2>6. SpawnProgress'
    <3>1. vm'.regions = {SegmentRegion(j) : j \in 1..loaded'}
      BY <1>0, <2>5
    <3> QED
      BY <2>1, <2>2, <3>1 DEF SpawnProgress, SegmentRegion, Region
  <2> QED
    BY <1>8, <1>9, <1>10, <1>11, <2>1, <2>6, Zenon DEF VMInv, Space
<1> QED
  BY <1>12, <1>13


(* A step of process_spawn that fails leaves no process.                   *)
LEMMA DropStep ==
    \A x :
        /\ Sound(x)
        /\ x.err # "ok"
        /\ vm' = OrDrop(x)
        /\ vm'.err # "ok" => stage' = "no process"
        =>
        VMInv' /\ Stays(x, vm')
<1>DropSound. ASSUME NEW m, Sound(m)
              PROVE  /\ Sound(Drop(m)) /\ Drop(m).regions = {} /\ Drop(m).err = m.err
                     /\ RegionsApart(Drop(m)) /\ PopulatedMapped(Drop(m))
                     /\ Stays(m, Drop(m))
  <2> USE <1>DropSound
  <2> DEFINE F == {m.page[s] : s \in DOMAIN m.page}
             x == Drop(m)
  <2>0. m \in VM /\ m.page \in Tables
    BY DEF Sound, VM
  <2>1. F \in SUBSET Nat
    BY <2>0, TablesType
  <2>2. x = [m EXCEPT !.regions = {}, !.page = Empty, !.freed = F]
    BY DEF Drop
  <2> HIDE DEF F, x
  <2>3. x \in VM
    BY <2>0, <2>1, <2>2, EmptyTable, Zenon DEF VM
  <2>4. /\ x.regions = {} /\ x.err = m.err
        /\ x.ptes = m.ptes /\ x.pdes = m.pdes /\ x.tables = m.tables
        /\ x.nextSmall = m.nextSmall /\ x.nextLarge = m.nextLarge
    BY <2>0, <2>2 DEF VM
  <2>5. SamePages(m, x)
    BY <2>0, <2>4, NextTypes DEF SamePages
  <2>6. Sound(x) /\ Stays(m, x)
    BY <2>3, <2>5, SoundKept, SameStays
  <2> QED
    BY <2>4, <2>6 DEF x, RegionsApart, PopulatedMapped
<1> TAKE x
<1> HAVE /\ Sound(x)
         /\ x.err # "ok"
         /\ vm' = OrDrop(x)
         /\ vm'.err # "ok" => stage' = "no process"
<1>1. vm' = Drop(x)
  BY Zenon DEF OrDrop
<1>2. /\ Sound(vm') /\ vm'.regions = {} /\ vm'.err # "ok"
      /\ RegionsApart(vm') /\ PopulatedMapped(vm') /\ Stays(x, vm')
  BY <1>1, <1>DropSound, Zenon
<1> QED
  BY <1>2, InvFrom, Zenon

LEMMA StackStep ==
    ASSUME LeastNumber, VMInv, SpawnStack
    PROVE  VMInv' /\ Stays(vm, vm')
<1> DEFINE a == StackTop - LargePages
           y == AllocateFixed(Fresh, a, StackTop)
           x == IF y.err = "ok" THEN Populate(y, a, StackTop) ELSE y
           n == Region(a, StackTop, TRUE)
<1>0. /\ stage = "segments" /\ loaded = Len(Segments) /\ vm' = OrDrop(x)
      /\ stage' = IF vm'.err = "ok" THEN "events" ELSE "no process"
  BY Zenon DEF SpawnStack, OnSuccess
<1>1. /\ a \in Nat /\ StackTop \in Nat /\ a < StackTop /\ StackTop <= MaxAddr
      /\ Stack.start = a /\ Stack.end = StackTop
  BY AreaFacts
<1>2. \A r \in vm.regions : \E j \in 1..Len(Segments) : IsArea(r, Segments[j])
  <2> TAKE r \in vm.regions
  <2>1. PICK j \in 1..loaded : r = SegmentRegion(j)
    BY <1>0, Zenon DEF VMInv, SpawnProgress
  <2>2. j \in 1..Len(Segments)
    BY <1>0, Zenon
  <2> QED
    BY <2>1, <2>2, SegmentFacts DEF IsArea
<1>3. /\ Sound(Fresh) /\ Space(Fresh) /\ Fresh.err = "ok" /\ Fresh.regions = vm.regions
      /\ RxUnused(vm) => RxUnused(Fresh)
      /\ Stays(vm, Fresh)
  BY <1>0, FreshFacts, Zenon
<1>4. \A r \in Fresh.regions : r.end <= a \/ StackTop <= r.start
  <2> TAKE r \in Fresh.regions
  <2>1. PICK j \in 1..Len(Segments) : IsArea(r, Segments[j])
    BY <1>2, <1>3
  <2>2. Apart(Segments[j], Stack)
    BY SegmentFacts
  <2> QED
    BY <1>1, <2>1, <2>2 DEF IsArea, Apart
<1>5. LET w == AllocateFixed(Fresh, a, StackTop)
      IN  x = IF w.err = "ok" THEN Populate(w, a, StackTop) ELSE w
  OBVIOUS
<1>6. Region(a, StackTop, TRUE).start = a /\ Region(a, StackTop, TRUE).end = StackTop
  BY DEF Region
<1> HIDE DEF a, x
<1>7. Added(Fresh, x, a, StackTop) /\ (RxUnused(Fresh) => RxUnused(x))
  BY <1>1, <1>3, <1>4, <1>5, FixedAdded
<1>s. Stays(vm, x)
  BY <1>3, <1>7, StaysTwice, Zenon DEF Added
<1>8. CASE x.err # "ok"
  <2>1. VMInv' /\ Stays(x, vm')
    BY <1>0, <1>7, <1>8, DropStep, Zenon DEF Added
  <2> QED
    BY <1>s, <2>1, StaysTwice, Zenon
<1>9. CASE x.err = "ok"
  <2>1. vm' = x /\ stage' = "events"
    BY <1>0, <1>9 DEF OrDrop
  <2>2. /\ Sound(vm') /\ Space(vm') /\ vm'.regions = vm.regions \union {n}
    BY <1>3, <1>7, <1>9, <2>1, Zenon DEF Added
  <2>3. RxUnused(vm')
    BY <1>0, <1>3, <1>7, <2>1, Zenon DEF VMInv
  <2>4. \A r \in vm'.regions : r.end <= MaxAddr + 0
    <3>1. \A r \in vm.regions : r.end <= MaxAddr + 0
      BY <1>0, Zenon DEF VMInv
    <3>2. n.end = StackTop
      BY <1>6, Zenon
    <3> HIDE DEF n
    <3>3. n.end <= MaxAddr + 0
      BY <1>1, <3>2, Consts
    <3> QED
      BY <2>2, <3>1, <3>3
  <2>5. \A r \in vm'.regions : \/ IsArea(r, Stack)
                               \/ \E j \in 1..Len(Segments) : IsArea(r, Segments[j])
    BY <1>1, <1>2, <1>6, <2>2, Zenon DEF IsArea
  <2>6. SpawnProgress'
    BY <2>1, <2>5 DEF SpawnProgress, IsArea, Stack
  <2> QED
    BY <1>s, <2>1, <2>2, <2>3, <2>4, <2>6, Zenon DEF VMInv, Space
<1> QED
  BY <1>8, <1>9

LEMMA EventsStep ==
    ASSUME LeastNumber, VMInv, SpawnEventBuf
    PROVE  VMInv' /\ Stays(vm, vm')
<1> DEFINE b == EventBuf + 1
           y == AllocateFixed(Fresh, EventBuf, b)
           x == IF y.err = "ok" THEN Populate(y, EventBuf, b) ELSE y
           n == Region(EventBuf, b, TRUE)
<1>0. /\ stage = "events" /\ vm' = OrDrop(x)
      /\ stage' = IF vm'.err = "ok" THEN "running" ELSE "no process"
  BY Zenon DEF SpawnEventBuf, OnSuccess
<1>1. /\ EventBuf \in Nat /\ b \in Nat /\ EventBuf < b /\ b <= MaxAddr
      /\ Events.start = EventBuf /\ Events.end = b /\ Apart(Stack, Events)
  BY AreaFacts
<1>2. \A r \in vm.regions : \/ IsArea(r, Stack)
                            \/ \E j \in 1..Len(Segments) : IsArea(r, Segments[j])
  BY <1>0, Zenon DEF VMInv, SpawnProgress
<1>3. /\ Sound(Fresh) /\ Space(Fresh) /\ Fresh.err = "ok" /\ Fresh.regions = vm.regions
      /\ RxUnused(vm) => RxUnused(Fresh)
      /\ Stays(vm, Fresh)
  BY <1>0, FreshFacts, Zenon
<1>4. \A r \in Fresh.regions : r.end <= EventBuf \/ b <= r.start
  <2> TAKE r \in Fresh.regions
  <2>1. CASE IsArea(r, Stack)
    BY <1>1, <2>1 DEF IsArea, Apart
  <2>2. CASE \E j \in 1..Len(Segments) : IsArea(r, Segments[j])
    <3>1. PICK j \in 1..Len(Segments) : IsArea(r, Segments[j])
      BY <2>2
    <3>2. Apart(Segments[j], Events)
      BY SegmentFacts
    <3> QED
      BY <1>1, <3>1, <3>2 DEF IsArea, Apart
  <2> QED
    BY <1>2, <1>3, <2>1, <2>2
<1>5. LET w == AllocateFixed(Fresh, EventBuf, b)
      IN  x = IF w.err = "ok" THEN Populate(w, EventBuf, b) ELSE w
  OBVIOUS
<1>6. n.end = b
  BY DEF Region
<1> HIDE DEF b, x, n
<1>7. Added(Fresh, x, EventBuf, b) /\ (RxUnused(Fresh) => RxUnused(x))
  BY <1>1, <1>3, <1>4, <1>5, FixedAdded
<1>s. Stays(vm, x)
  BY <1>3, <1>7, StaysTwice, Zenon DEF Added
<1>8. CASE x.err # "ok"
  <2>1. VMInv' /\ Stays(x, vm')
    BY <1>0, <1>7, <1>8, DropStep, Zenon DEF Added
  <2> QED
    BY <1>s, <2>1, StaysTwice, Zenon
<1>9. CASE x.err = "ok"
  <2>1. vm' = x /\ stage' = "running"
    BY <1>0, <1>9 DEF OrDrop
  <2>2. /\ Sound(vm') /\ Space(vm') /\ vm'.regions = vm.regions \union {n}
    BY <1>3, <1>7, <1>9, <2>1, Zenon DEF Added, n
  <2>3. RxUnused(vm')
    BY <1>0, <1>3, <1>7, <2>1, Zenon DEF VMInv
  <2>4. \A r \in vm'.regions : r.end <= MaxAddr + 0
    <3>1. \A r \in vm.regions : r.end <= MaxAddr + 0
      BY <1>0, Zenon DEF VMInv
    <3>2. n.end <= MaxAddr + 0
      BY <1>1, <1>6, Consts
    <3> QED
      BY <2>2, <3>1, <3>2
  <2> QED
    BY <1>s, <2>1, <2>2, <2>3, <2>4, InvFrom, Zenon DEF Space
<1> QED
  BY <1>8, <1>9

LEMMA AllocStep ==
    ASSUME LeastNumber, VMInv, NEW size \in Sizes, NEW align \in Aligns, VmspaceAlloc(size, align)
    PROVE  VMInv' /\ Stays(vm, vm')
<1> DEFINE y == Allocate(Fresh, size, align)
           x == IF y.err = "ok" THEN Populate(y, y.last, y.last + size) ELSE y
           B == MaxAddr + (IF stage = "acquired" THEN 2 ELSE 0)
<1>0. /\ stage \in {"running", "acquired"} /\ UpperEnd(vm) + align + size <= MaxAddr
      /\ vm' = x /\ stage' = stage
  BY DEF VmspaceAlloc, OnSuccess
<1>1. size \in Nat /\ align \in Nat \ {0} /\ MaxAddr \in Nat /\ B \in Nat /\ MaxAddr <= B
  BY VMAssumption
<1>2. /\ Sound(Fresh) /\ Space(Fresh) /\ Fresh.err = "ok" /\ Fresh.regions = vm.regions
      /\ UpperEnd(Fresh) = UpperEnd(vm)
      /\ RxUnused(vm) => RxUnused(Fresh)
      /\ Stays(vm, Fresh)
  BY <1>0, FreshFacts, Zenon
<1>3. \A r \in vm.regions : r.end <= B
  BY Zenon DEF VMInv
<1> HIDE DEF B
<1>4. PICK s \in Nat : /\ InsertResult(Fresh, y, s, s + size)
                       /\ s < UpperEnd(Fresh) + align /\ UpperEnd(Fresh) \in Nat
  BY <1>1, <1>2, <1>3, AllocateSpace, Zenon
<1>5. s + size \in Nat /\ s + size <= B
  BY <1>0, <1>1, <1>2, <1>4
<1>6. /\ y.err # "ok" => x = y
      /\ y.err = "ok" => x = Populate(y, s, s + size)
  BY <1>4, Zenon DEF InsertResult
<1> HIDE DEF y, x
<1>7. y.err = "ok" => /\ Outcome(y, x, s, s + size)
                      /\ RxUnused(y) => RxUnused(x)
  BY <1>4, <1>6, PopulateOutcome DEF InsertResult
<1>8. Added(Fresh, x, s, s + size)
  BY <1>4, <1>5, <1>6, <1>7, AddedBy
<1>9. RxUnused(vm) => RxUnused(x)
  BY <1>2, <1>4, <1>6, <1>7, Zenon DEF InsertResult, SameTranslation
<1>10. \A r \in x.regions : r.end <= B
  BY <1>2, <1>3, <1>5, <1>8 DEF Added, IsArea
<1>11. Sound(vm') /\ Space(vm')
  BY <1>0, <1>8 DEF Added
<1>12. stage' = "running" => RxUnused(vm')
  BY <1>0, <1>9 DEF VMInv
<1>13. \A r \in vm'.regions : r.end <= MaxAddr + (IF stage' = "acquired" THEN 2 ELSE 0)
  BY <1>0, <1>10 DEF B
<1>14. stage' \in {"running", "acquired", "panicked", "no process"}
  BY <1>0, Zenon
<1>15. Stays(vm, vm')
  BY <1>0, <1>2, <1>8, StaysTwice, Zenon DEF Added
<1> QED
  BY <1>11, <1>12, <1>13, <1>14, <1>15, InvFrom, Zenon DEF Space


LEMMA AcquireStep ==
    LeastNumber => (VMInv /\ Acquire => VMInv' /\ Stays(vm, vm'))
<1> HAVE LeastNumber
<1>BoundBefore. ASSUME VMInv, stage # "acquired"
                PROVE  \A r \in vm.regions : r.start \in Nat /\ r.end \in Nat /\ r.end <= MaxAddr
  <2> USE <1>BoundBefore
  <2> TAKE r \in vm.regions
  <2>1. r.end <= MaxAddr + 0
    BY Zenon DEF VMInv
  <2>2. r.start \in Nat /\ r.end \in Nat
    BY RegionTypes, Zenon DEF VMInv, Sound
  <2> QED
    BY <2>1, <2>2, Consts
<1>RxFresh. ASSUME NEW y, Sound(y), RxUnused(y)
            PROVE  FreshFrames(y, RxFrame, 1)
  <2> USE <1>RxFresh
  <2>1. \A f \in RxFrame..(RxFrame + 1 - 1) : f = RxFrame
    BY DEF RxFrame
  <2> QED
    BY <2>1 DEF FreshFrames, Given, RxUnused
<1> HAVE VMInv /\ Acquire
<1> DEFINE y == Allocate(Fresh, 1, 1)
           rx == IF y.err = "ok" THEN Map(y, y.last, y.last + 1, RxFrame) ELSE y
           z == Allocate(rx, 1, 1)
           io == IF rx.err = "ok" THEN z ELSE rx
           x == IF io.err = "ok" THEN Populate(io, io.last, io.last + 1) ELSE io
<1>0. stage = "running" /\ stage' = "acquired" /\ vm' = x
  BY Zenon DEF Acquire, OnSuccess
<1>1. /\ Sound(Fresh) /\ Space(Fresh) /\ Fresh.err = "ok" /\ Fresh.regions = vm.regions
      /\ RxUnused(vm) => RxUnused(Fresh)
      /\ Stays(vm, Fresh)
  BY <1>0, FreshFacts, Zenon
<1>2. MaxAddr \in Nat /\ MaxAddr + 1 \in Nat /\ 1 \in Nat \ {0} /\ 1 \in Nat
  BY Consts
<1>3. \A r \in Fresh.regions : r.end <= MaxAddr
  BY <1>0, <1>1, <1>BoundBefore, Zenon
<1>4. PICK s \in Nat : /\ InsertResult(Fresh, y, s, s + 1)
                       /\ s < UpperEnd(Fresh) + 1 /\ UpperEnd(Fresh) \in Nat
                       /\ UpperEnd(Fresh) <= MaxAddr
  BY <1>1, <1>2, <1>3, AllocateSpace, Zenon
<1>5. s + 1 \in Nat /\ s + 1 <= MaxAddr + 1
  BY <1>2, <1>4
<1>6. /\ y.err # "ok" => rx = y
      /\ y.err = "ok" => rx = Map(y, s, s + 1, RxFrame)
  BY <1>4, Zenon DEF InsertResult
<1> HIDE DEF y
<1>7. Sound(y) /\ RxUnused(y)
  BY <1>0, <1>1, <1>4, Zenon DEF InsertResult, SameTranslation, VMInv
<1>8. y.err = "ok" => Outcome(y, rx, s, s + 1)
  <2> SUFFICES ASSUME y.err = "ok" PROVE Outcome(y, rx, s, s + 1)
    OBVIOUS
  <2>1. Ready(y, s, s + 1)
    BY <1>4, Zenon DEF InsertResult
  <2>2. RxFrame \in Nat /\ (s + 1) - s = 1
    BY ONLY <1>4 DEF RxFrame
  <2>3. FreshFrames(y, RxFrame, (s + 1) - s)
    BY <1>7, <2>2, <1>RxFresh
  <2> QED
    BY <1>6, <2>1, <2>2, <2>3, MapOutcome
<1> HIDE DEF rx
<1>9. Added(Fresh, rx, s, s + 1)
  BY <1>4, <1>5, <1>6, <1>8, AddedBy
<1>10. Sound(rx) /\ Space(rx) /\ rx \in VM /\ Stays(vm, rx)
  BY <1>1, <1>9, StaysTwice DEF Added, Sound
<1>11. \A r \in rx.regions : r.end <= MaxAddr + 1
  <2> TAKE r \in rx.regions
  <2>1. CASE \E q \in Fresh.regions : IsArea(r, q)
    <3>1. PICK q \in Fresh.regions : IsArea(r, q)
      BY <2>1
    <3>2. q.end \in Nat /\ q.end <= MaxAddr /\ r.end = q.end
      BY <1>0, <1>1, <3>1, <1>BoundBefore DEF IsArea
    <3> QED
      BY <1>2, <3>2
  <2>2. CASE r.end = s + 1
    BY <1>5, <2>2
  <2> QED
    BY <1>9, <2>1, <2>2 DEF Added
<1> SUFFICES /\ Sound(x) /\ Space(x) /\ Stays(vm, x)
             /\ \A r \in x.regions : r.end <= MaxAddr + 2
  BY <1>0, InvFrom, Zenon DEF Space
<1>12. CASE rx.err # "ok"
  <2>1. x = rx
    BY <1>12
  <2>2. \A r \in rx.regions : r.end <= MaxAddr + 2
    <3> TAKE r \in rx.regions
    <3>1. r.end \in Nat /\ r.end <= MaxAddr + 1
      BY <1>10, <1>11, RegionTypes
    <3> QED
      BY <1>2, <3>1
  <2> QED
    BY <1>10, <2>1, <2>2, Zenon
<1>13. CASE rx.err = "ok"
  <2>1. PICK t \in Nat : /\ InsertResult(rx, z, t, t + 1)
                         /\ t < UpperEnd(rx) + 1 /\ UpperEnd(rx) \in Nat
                         /\ UpperEnd(rx) <= MaxAddr + 1
    BY <1>2, <1>10, <1>11, <1>13, AllocateSpace
  <2>2. t + 1 \in Nat /\ t + 1 <= MaxAddr + 2
    BY <1>2, <2>1
  <2>3. /\ z.err # "ok" => x = z
        /\ z.err = "ok" => x = Populate(z, t, t + 1)
    BY <1>13, <2>1, Zenon DEF InsertResult
  <2> HIDE DEF z, x
  <2>4. z.err = "ok" => Outcome(z, x, t, t + 1)
    BY <2>1, <2>3, PopulateOutcome, Zenon DEF InsertResult
  <2>5. Added(rx, x, t, t + 1)
    BY <2>1, <2>2, <2>3, <2>4, AddedBy
  <2>6. \A r \in x.regions : r.end <= MaxAddr + 2
    <3> TAKE r \in x.regions
    <3>1. CASE \E q \in rx.regions : IsArea(r, q)
      <4>1. PICK q \in rx.regions : IsArea(r, q)
        BY <3>1
      <4>2. q.end \in Nat /\ q.end <= MaxAddr + 1 /\ r.end = q.end
        BY <1>10, <1>11, <4>1, RegionTypes DEF IsArea
      <4> QED
        BY <1>2, <4>2
    <3>2. CASE r.end = t + 1
      BY <2>2, <3>2
    <3> QED
      BY <2>5, <3>1, <3>2 DEF Added
  <2> QED
    BY <1>10, <2>5, <2>6, StaysTwice DEF Added
<1> QED
  BY <1>12, <1>13, Zenon

LEMMA InitInv ==
    ASSUME Init
    PROVE  VMInv
<1>1. PICK small \in 1..(NSmall + 1), large \in 1..(NLarge + 1) :
         vm = [regions |-> {}, last |-> 0, ptes |-> Empty, pdes |-> Empty,
               dirs |-> {}, tables |-> {}, page |-> Empty,
               freed |-> {}, nextSmall |-> small,
               nextLarge |-> large, err |-> "ok"]
  BY Zenon DEF Init
<1>2. vm \in VM
  BY <1>1, EmptyTable DEF VM, Errors
<1>3. /\ vm.regions = {} /\ DOMAIN vm.ptes = {} /\ DOMAIN vm.pdes = {}
      /\ vm.tables = {} /\ vm.err = "ok"
  BY <1>1, EmptyTable
<1>4. \A v : ~IsMapped(vm, v)
  BY <1>3 DEF IsMapped
<1>5. Sound(vm)
  BY <1>2, <1>3, <1>4 DEF Sound, Structured, FramesGiven, OneToOne
<1>6. RegionsApart(vm) /\ PopulatedMapped(vm) /\ Owned(vm) /\ RxUnused(vm)
  BY <1>3, <1>4 DEF RegionsApart, PopulatedMapped, Owned, RxUnused
<1>7. stage = "segments"
  BY DEF Init
<1>8. SpawnProgress
  <2>1. loaded = 0
    BY DEF Init
  <2>2. Len(Segments) \in Nat
    BY VMAssumption
  <2>3. vm.regions = {SegmentRegion(i) : i \in 1..loaded}
    BY <1>3, <2>1
  <2> QED
    BY <1>7, <2>1, <2>2, <2>3 DEF SpawnProgress
<1> QED
  BY <1>3, <1>5, <1>6, <1>7, <1>8, Zenon DEF VMInv

LEMMA StutterInv ==
    ASSUME VMInv, UNCHANGED vars
    PROVE  VMInv' /\ Stays(vm, vm')
<1>1. vm' = vm /\ loaded' = loaded /\ stage' = stage
  BY DEF vars
<1> QED
  BY <1>1, Zenon DEF VMInv, SpawnProgress, Stays

-----------------------------------------------------------------------------
LOCAL INSTANCE WellFoundedInduction

(* A set of naturals that is not empty has a least element.                *)
LEMMA LeastNatural ==
    ASSUME NEW T, T \subseteq Nat, T # {}
    PROVE  \E x \in T : \A y \in T : x <= y
<1>1. PICK x \in T : \A y \in T : <<y, x>> \notin OpToRel(<, Nat)
  BY NatLessThanWellFounded, WFMin, Zenon
<1>2. \A y \in T : ~(y < x)
  BY <1>1, Zenon DEF OpToRel
<1> QED
  BY <1>2

LEMMA StepInv == VMInv /\ [Next]_vars => VMInv' /\ Stays(vm, vm')
<1>1. LeastNumber
  BY LeastNatural, Zenon DEF LeastNumber
<1> QED
  BY <1>1, LoadStep, StackStep, EventsStep, AcquireStep, AllocStep, StutterInv DEF Next

LEMMA VMInvariant == Spec => []VMInv
<1>1. Init => VMInv
  BY InitInv
<1>2. VMInv /\ [Next]_vars => VMInv'
  BY StepInv
<1> QED
  BY <1>1, <1>2, PTL DEF Spec


-----------------------------------------------------------------------------
(* allocate and allocate_fixed never return a region that overlaps         *)
(* another: comparing start addresses is enough for an image whose         *)
(* segments are apart, because what is allocated later begins above the    *)
(* end of every region.                                                    *)
THEOREM RegionsNeverOverlap == Spec => []RegionsDisjoint
<1>1. VMInv => RegionsDisjoint
  BY Zenon DEF VMInv, RegionsApart, RegionsDisjoint, Apart
<1> QED
  BY <1>1, VMInvariant, PTL

(* Every page of a region that populate, populate_from or map returned     *)
(* without an error is mapped, and no later call unmaps it.                *)
THEOREM PopulatedStaysMapped == Spec => []PopulatedIsMapped
<1>1. VMInv => PopulatedIsMapped
  <2> SUFFICES ASSUME VMInv, NEW r \in vm.regions, r.populated, NEW v \in r.start..(r.end - 1)
               PROVE  v \in Mapped
    BY DEF PopulatedIsMapped
  <2>1. r.start \in Nat /\ r.end \in Nat
    BY RegionTypes, Zenon DEF VMInv, Sound
  <2>2. v \in Nat /\ Within(r, v)
    BY <2>1 DEF Within
  <2>3. IsMapped(vm, v)
    BY <2>2, Zenon DEF VMInv, PopulatedMapped
  <2>4. r.end <= MaxAddr + 2
    <3>1. r.end <= MaxAddr + 2 \/ r.end <= MaxAddr + 0
      BY Zenon DEF VMInv
    <3> QED
      BY <2>1, <3>1, Consts
  <2>5. v \in 0..(MaxAddr + LargePages)
    BY <2>1, <2>2, <2>4, Consts
  <2> QED
    BY <2>3, <2>5 DEF Mapped, IsMapped, Block
<1> QED
  BY <1>1, VMInvariant, PTL

(* The page tables never give two virtual pages the same physical one:     *)
(* whatever is populated, mapped, left half done by an error or dropped,   *)
(* a frame is handed out once, and a large page's frame is aligned as the  *)
(* hardware takes it to be.                                                *)
THEOREM FramesNotShared == Spec => []NoAliasing
<1>1. VMInv => NoAliasing
  <2> SUFFICES ASSUME VMInv, NEW v \in Mapped, NEW w \in Mapped, Translate(v) = Translate(w)
               PROVE  v = w
    BY DEF NoAliasing
  <2>1. \A u \in Mapped : u \in Nat /\ IsMapped(vm, u) /\ Translate(u) = Frame(vm, u)
    BY Consts DEF Mapped, IsMapped, Translate, Frame, Block
  <2> QED
    BY <2>1, Zenon DEF VMInv, Sound, OneToOne
<1> QED
  BY <1>1, VMInvariant, PTL

(* mmu_map_small_page never meets a large page and mmu_map_large_page      *)
(* never a page table: their errors for that are unreachable, from process *)
(* spawn, vmspace_alloc and acquire alike.                                 *)
THEOREM PagesFitTheTables == Spec => []NoMapConflict
<1>1. VMInv => NoMapConflict
  BY Zenon DEF VMInv, Sound, VM, Errors, NoMapConflict
<1> QED
  BY <1>1, VMInvariant, PTL

(* The page tables of an address space only gain entries: spawning the     *)
(* process, populating and mapping regions, failing half way through any   *)
(* of it and dropping the address space all leave every mapped page where  *)
(* it was, so no translation the processor may hold becomes stale and      *)
(* vm.rs may leave out the mmu_invalidate_tlb that mmu_map_range asks for. *)
THEOREM MappingsOnlyGrow == Spec => TranslationsStay
<1>1. VMInv /\ [Next]_vars =>
         [\A v \in Mapped : v \in Mapped' /\ Translate(v)' = Translate(v)]_vars
  <2> SUFFICES ASSUME VMInv, [Next]_vars, NEW v \in Mapped
               PROVE  v \in Mapped' /\ Translate(v)' = Translate(v)
    OBVIOUS
  <2>1. /\ v \in 0..(MaxAddr + LargePages) /\ v \in Nat
        /\ IsMapped(vm, v) /\ Translate(v) = Frame(vm, v)
    BY Consts DEF Mapped, IsMapped, Translate, Frame, Block
  <2>2. IsMapped(vm', v) /\ Frame(vm', v) = Frame(vm, v)
    BY <2>1, StepInv, Zenon DEF Stays
  <2>3. v \in Mapped' /\ Translate(v)' = Frame(vm', v)
    BY <2>1, <2>2 DEF Mapped, IsMapped, Translate, Frame, Block
  <2> QED
    BY <2>1, <2>2, <2>3
<1> QED
  BY <1>1, VMInvariant, PTL DEF Spec, TranslationsStay
=============================================================================
