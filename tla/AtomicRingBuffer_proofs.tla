----------------------- MODULE AtomicRingBuffer_proofs -----------------------
(***************************************************************************)
(* Proofs about the ring buffer for every buffer size, element size and    *)
(* set of elements.  The byte offsets are first shown to be the multiples  *)
(* k * ElementSize with 0 <= k < Slots (lemmas on arithmetic); the rest of *)
(* the argument counts slots.                                              *)
(***************************************************************************)
EXTENDS AtomicRingBuffer, SequenceTheorems, TLAPS

(* Slot numbers: the successor of a slot, the number of slots from t up to *)
(* h, and the slot i places after t.                                       *)
SuccSlot(k) == IF k + 1 = Slots THEN 0 ELSE k + 1
Dist(h, t) == IF h >= t THEN h - t ELSE h + Slots - t
SlotAfter(t, i) == IF t + i >= Slots THEN t + i - Slots ELSE t + i
SlotSet == 0..(Slots - 1)

(* Euclidean division, in the form the arithmetic below needs.             *)
LEMMA Division ==
    ASSUME NEW a \in Nat, NEW b \in Nat, b > 0
    PROVE  /\ a - (a % b) = b * (a \div b)
           /\ a \div b \in Nat
           /\ a >= b => a \div b # 0
  OBVIOUS

(* A buffer has at least one slot and its capacity is a whole number of    *)
(* elements (atomic_ring_buffer_new rounds it down).                       *)
LEMMA CapacityIsWhole ==
    /\ Slots \in Nat \ {0}
    /\ Capacity = Offset(Slots)
<1>1. /\ BufSize - HeaderSize \in Nat
      /\ ElementSize \in Nat /\ ElementSize > 0
      /\ BufSize - HeaderSize >= ElementSize
  BY SizeAssumption
<1> QED
  BY ONLY <1>1, Division, Zenon DEF Slots, Capacity, Offset

(* Multiplication by the element size is strictly monotonic.               *)
LEMMA OffsetMonotonic ==
    ASSUME NEW a \in Nat, NEW b \in Nat, a < b
    PROVE  /\ Offset(a) \in Nat
           /\ Offset(b) \in Nat
           /\ Offset(a) + ElementSize <= Offset(b)
<1>1. ElementSize \in Nat \ {0}
  BY SizeAssumption
<1>2. PICK c \in Nat : b = a + 1 + c
  <2>1. b - a - 1 \in Nat /\ b = a + 1 + (b - a - 1)
    OBVIOUS
  <2> QED BY <2>1
<1>3. ElementSize * b = ElementSize * a + ElementSize + ElementSize * c
  BY <1>1, <1>2
<1>4. ElementSize * c \in Nat /\ ElementSize * a \in Nat
  BY <1>1
<1> QED
  BY <1>1, <1>3, <1>4 DEF Offset

(* Offsets are ordered as the slots are, and differ for different slots.   *)
LEMMA OffsetOrder ==
    ASSUME NEW a \in Nat, NEW b \in Nat
    PROVE  /\ Offset(a) \in Nat
           /\ Offset(a) = Offset(b) <=> a = b
           /\ Offset(a) >= Offset(b) <=> a >= b
<1>1. ElementSize \in Nat \ {0}
  BY SizeAssumption
<1>2. Offset(a) \in Nat /\ Offset(b) \in Nat
  BY <1>1 DEF Offset
<1>3. CASE a < b
  BY <1>1, <1>2, <1>3, OffsetMonotonic
<1>4. CASE b < a
  BY <1>1, <1>2, <1>4, OffsetMonotonic
<1>5. CASE a = b
  BY <1>2, <1>5
<1> QED
  BY <1>3, <1>4, <1>5

(* NextOffset moves to the next slot and wraps after the last one.         *)
LEMMA NextOffsetIsSuccessor ==
    ASSUME NEW k \in SlotSet
    PROVE  /\ NextOffset(Offset(k)) = Offset(SuccSlot(k))
           /\ SuccSlot(k) \in SlotSet
<1>1. k + 1 \in Nat /\ k \in Nat /\ Slots \in Nat \ {0}
  BY CapacityIsWhole DEF SlotSet
<1>2. Offset(k) + ElementSize = Offset(k + 1)
  BY <1>1, SizeAssumption DEF Offset
<1>3. Offset(k) + ElementSize = Capacity <=> k + 1 = Slots
  BY <1>1, <1>2, CapacityIsWhole, OffsetOrder
<1>4. Offset(0) = 0
  BY SizeAssumption DEF Offset
<1> QED
  BY <1>1, <1>2, <1>3, <1>4 DEF NextOffset, SuccSlot, SlotSet

(* The ring's byte arithmetic for what lies between tail and head agrees   *)
(* with the arithmetic of slots.                                           *)
LEMMA WrapIsModulo ==
    ASSUME NEW k \in 0..(2 * Slots - 1)
    PROVE  Wrap(Offset(k)) = Offset(IF k >= Slots THEN k - Slots ELSE k)
<1>1. k \in Nat /\ Slots \in Nat \ {0}
  BY CapacityIsWhole
<1>2. Offset(k) >= Capacity <=> k >= Slots
  BY <1>1, CapacityIsWhole, OffsetOrder
<1>3. k >= Slots => Offset(k) - Capacity = Offset(k - Slots)
  BY <1>1, CapacityIsWhole, SizeAssumption DEF Offset
<1> QED
  BY <1>2, <1>3 DEF Wrap

LEMMA UsedIsDistance ==
    ASSUME NEW h \in SlotSet, NEW t \in SlotSet
    PROVE  Wrap(Offset(h) + Capacity - Offset(t)) \div ElementSize = Dist(h, t)
<1>1. h \in Nat /\ t \in Nat /\ Slots \in Nat \ {0} /\ t < Slots /\ h < Slots
  BY CapacityIsWhole DEF SlotSet
<1> DEFINE k == h + Slots - t
<1>2. k \in 0..(2 * Slots - 1)
  BY <1>1
<1>3. Offset(h) + Capacity - Offset(t) = Offset(k)
  BY <1>1, CapacityIsWhole, SizeAssumption DEF Offset
<1>4. Wrap(Offset(k)) = Offset(IF k >= Slots THEN k - Slots ELSE k)
  BY <1>2, WrapIsModulo
<1>5. (IF k >= Slots THEN k - Slots ELSE k) = Dist(h, t) /\ Dist(h, t) \in Nat
  BY <1>1 DEF Dist
<1>6. \A n \in Nat : Offset(n) \div ElementSize = n
  <2> TAKE n \in Nat
  <2>1. ElementSize \in Nat \ {0}
    BY SizeAssumption
  <2> QED BY <2>1 DEF Offset
<1> QED
  BY <1>3, <1>4, <1>5, <1>6

LEMMA SlotOfContents ==
    ASSUME NEW t \in SlotSet, NEW i \in 0..(Slots - 1)
    PROVE  /\ Wrap(Offset(t) + Offset(i)) = Offset(SlotAfter(t, i))
           /\ SlotAfter(t, i) \in SlotSet
<1>1. t \in Nat /\ i \in Nat /\ Slots \in Nat \ {0} /\ t < Slots /\ i < Slots
  BY CapacityIsWhole DEF SlotSet
<1>2. Offset(t) + Offset(i) = Offset(t + i)
  BY <1>1, SizeAssumption DEF Offset
<1>3. t + i \in 0..(2 * Slots - 1)
  BY <1>1
<1> QED
  BY <1>1, <1>2, <1>3, WrapIsModulo DEF SlotAfter, SlotSet

LEMMA ContentsInSlots ==
    ASSUME NEW h \in SlotSet, NEW t \in SlotSet, NEW d
    PROVE  /\ UsedBetween(Offset(h), Offset(t)) = Dist(h, t)
           /\ Dist(h, t) \in 0..(Slots - 1)
           /\ ContentsOf(d, Offset(h), Offset(t))
                = [i \in 1..Dist(h, t) |-> d[Offset(SlotAfter(t, i - 1))]]
<1>1. UsedBetween(Offset(h), Offset(t)) = Dist(h, t)
  BY UsedIsDistance DEF UsedBetween
<1>2. Dist(h, t) \in 0..(Slots - 1)
  BY CapacityIsWhole DEF Dist, SlotSet
<1>3. ASSUME NEW i \in 1..Dist(h, t)
      PROVE  Wrap(Offset(t) + Offset(i - 1)) = Offset(SlotAfter(t, i - 1))
  <2>1. i - 1 \in 0..(Slots - 1)
    BY <1>2, CapacityIsWhole
  <2> QED BY <2>1, SlotOfContents
<1> QED
  BY <1>1, <1>2, <1>3 DEF ContentsOf
-----------------------------------------------------------------------------
(* The inductive invariant.  To the properties of interest it adds why     *)
(* they hold: a consumer that has seen an element keeps it until it pops,  *)
(* a producer that has found room keeps that room until it publishes, the  *)
(* slot being filled is complete before it is published, and every slot    *)
(* between tail and head is complete.                                      *)
Nonempty == cpc \in {"nonempty", "front", "read"} => head # tail
Room == ppc # "idle" => NextOffset(head) # tail
Filled == ppc = "copied" => data[head] = elem
Complete == \A i \in DOMAIN Contents : Contents[i] \in Elements
Shown == cpc = "read" => received = data[tail]

RingInv ==
    /\ TypeOK
    /\ Nonempty
    /\ Room
    /\ Filled
    /\ Complete
    /\ Shown
    /\ cpc # "null"

(* Complete, in slots.                                                     *)
LEMMA CompleteInSlots ==
    ASSUME NEW h \in SlotSet, NEW t \in SlotSet, NEW d
    PROVE  (\A i \in DOMAIN ContentsOf(d, Offset(h), Offset(t)) :
                ContentsOf(d, Offset(h), Offset(t))[i] \in Elements)
           <=> \A i \in 0..(Dist(h, t) - 1) :
                d[Offset(SlotAfter(t, i))] \in Elements
<1> DEFINE c == [i \in 1..Dist(h, t) |-> d[Offset(SlotAfter(t, i - 1))]]
<1>1. ContentsOf(d, Offset(h), Offset(t)) = c /\ Dist(h, t) \in Nat
  BY ContentsInSlots, CapacityIsWhole
<1>2. (\A i \in DOMAIN c : c[i] \in Elements)
      <=> \A i \in 1..Dist(h, t) : d[Offset(SlotAfter(t, i - 1))] \in Elements
  OBVIOUS
<1>3. (\A i \in 1..Dist(h, t) : d[Offset(SlotAfter(t, i - 1))] \in Elements)
      <=> \A i \in 0..(Dist(h, t) - 1) : d[Offset(SlotAfter(t, i))] \in Elements
  <2>1. ASSUME \A i \in 1..Dist(h, t) : d[Offset(SlotAfter(t, i - 1))] \in Elements,
               NEW j \in 0..(Dist(h, t) - 1)
        PROVE  d[Offset(SlotAfter(t, j))] \in Elements
    <3>1. j + 1 \in 1..Dist(h, t) /\ (j + 1) - 1 = j
      BY <1>1
    <3> QED BY <2>1, <3>1
  <2>2. ASSUME \A i \in 0..(Dist(h, t) - 1) : d[Offset(SlotAfter(t, i))] \in Elements,
               NEW j \in 1..Dist(h, t)
        PROVE  d[Offset(SlotAfter(t, j - 1))] \in Elements
    <3>1. j - 1 \in 0..(Dist(h, t) - 1)
      BY <1>1
    <3> QED BY <2>2, <3>1
  <2> QED BY <2>1, <2>2
<1> QED
  BY <1>1, <1>2, <1>3

LEMMA InitRing == Init => RingInv
<1> SUFFICES ASSUME Init PROVE RingInv
  OBVIOUS
<1>1. 0 \in SlotSet /\ Offset(0) = 0 /\ 0 \in Offsets
  BY CapacityIsWhole, SizeAssumption DEF Offset, Offsets, SlotSet
<1>2. Dist(0, 0) = 0
  BY DEF Dist
<1>3. Complete
  BY <1>1, <1>2, CompleteInSlots DEF Complete, Contents, Init
<1> QED
  BY <1>1, <1>3, Zenon DEF Init, RingInv, TypeOK, Nonempty, Room, Filled, Shown

(* How distances and slots change when one side moves by one slot.         *)
LEMMA SlotArithmetic ==
    ASSUME NEW h \in SlotSet, NEW t \in SlotSet
    PROVE  /\ \A i \in 0..(Dist(h, t) - 1) : SlotAfter(t, i) # h
           /\ SlotAfter(t, Dist(h, t)) = h
           /\ SlotAfter(t, 0) = t
           /\ (SuccSlot(h) # t) => Dist(SuccSlot(h), t) = Dist(h, t) + 1
           /\ (SuccSlot(h) = t) => Dist(h, t) = Slots - 1
           /\ (Dist(h, t) = Slots - 1) => SuccSlot(h) = t
           /\ (h # t) => /\ Dist(h, SuccSlot(t)) = Dist(h, t) - 1
                         /\ SuccSlot(h) # SuccSlot(t)
           /\ (h = t) <=> (Dist(h, t) = 0)
           /\ \A i \in 0..(Slots - 2) : SlotAfter(SuccSlot(t), i) = SlotAfter(t, i + 1)
<1>1. Slots \in Nat \ {0}
  BY CapacityIsWhole
<1> QED
  BY <1>1 DEF SlotSet, Dist, SlotAfter, SuccSlot

(* The slots behind head and tail.                                         *)
LEMMA HeadAndTailSlots ==
    ASSUME TypeOK
    PROVE  \E h, t \in SlotSet : head = Offset(h) /\ tail = Offset(t)
  BY DEF TypeOK, Offsets, SlotSet

(* Append and Tail of a sequence, entry by entry.                          *)
LEMMA AppendEntries ==
    ASSUME NEW S, NEW c \in Seq(S), NEW v \in S
    PROVE  Append(c, v)
             = [i \in 1..(Len(c) + 1) |-> IF i = Len(c) + 1 THEN v ELSE c[i]]
<1> DEFINE a == Append(c, v)
<1>1. /\ a \in Seq(S)
      /\ Len(a) = Len(c) + 1
      /\ \A i \in 1..Len(c) : a[i] = c[i]
      /\ a[Len(c) + 1] = v
  BY AppendProperties
<1>2. Len(c) \in Nat
  BY LenProperties
<1> HIDE DEF a
<1>3. a = [i \in 1..(Len(c) + 1) |-> a[i]]
  BY <1>1, LenProperties
<1>4. ASSUME NEW i \in 1..(Len(c) + 1)
      PROVE  a[i] = IF i = Len(c) + 1 THEN v ELSE c[i]
  BY <1>1, <1>2
<1>5. a = [i \in 1..(Len(c) + 1) |-> IF i = Len(c) + 1 THEN v ELSE c[i]]
  BY <1>3, <1>4
<1> QED
  BY <1>5 DEF a

LEMMA TailEntries ==
    ASSUME NEW S, NEW c \in Seq(S), Len(c) # 0
    PROVE  /\ Tail(c) = [i \in 1..(Len(c) - 1) |-> c[i + 1]]
           /\ c # << >>
           /\ Head(c) = c[1]
<1> DEFINE a == Tail(c)
<1>1. c # << >>
  BY EmptySeq
<1>2. /\ a \in Seq(S)
      /\ Len(a) = Len(c) - 1
      /\ \A i \in 1..Len(a) : a[i] = c[i + 1]
  BY <1>1, HeadTailProperties
<1> HIDE DEF a
<1>3. a = [i \in 1..(Len(c) - 1) |-> a[i]]
  BY <1>2, LenProperties
<1>4. a = [i \in 1..(Len(c) - 1) |-> c[i + 1]]
  BY <1>2, <1>3
<1>5. Head(c) = c[1]
  OBVIOUS
<1> QED
  BY <1>1, <1>4, <1>5 DEF a

(* Filling the slot at head leaves the contents alone.                     *)
LEMMA FillKeepsContents ==
    ASSUME NEW h \in SlotSet, NEW t \in SlotSet, NEW d, NEW v,
           d \in [Offsets -> Elements \union {Junk}]
    PROVE  ContentsOf([d EXCEPT ![Offset(h)] = v], Offset(h), Offset(t))
             = ContentsOf(d, Offset(h), Offset(t))
<1> DEFINE e == [d EXCEPT ![Offset(h)] = v]
<1>1. ASSUME NEW i \in 1..Dist(h, t)
      PROVE  e[Offset(SlotAfter(t, i - 1))] = d[Offset(SlotAfter(t, i - 1))]
  <2>1. i - 1 \in 0..(Dist(h, t) - 1) /\ i - 1 \in 0..(Slots - 1)
    BY ContentsInSlots, CapacityIsWhole
  <2>2. SlotAfter(t, i - 1) # h /\ SlotAfter(t, i - 1) \in SlotSet
    BY <2>1, SlotArithmetic, SlotOfContents
  <2>3. Offset(SlotAfter(t, i - 1)) # Offset(h)
    BY <2>2, OffsetOrder, CapacityIsWhole DEF SlotSet
  <2>4. Offset(SlotAfter(t, i - 1)) \in Offsets
    BY <2>2 DEF Offsets, SlotSet
  <2> QED BY <2>3, <2>4
<1> HIDE DEF e
<1>2. ContentsOf(e, Offset(h), Offset(t))
        = [i \in 1..Dist(h, t) |-> e[Offset(SlotAfter(t, i - 1))]]
  BY ContentsInSlots
<1>3. ContentsOf(d, Offset(h), Offset(t))
        = [i \in 1..Dist(h, t) |-> d[Offset(SlotAfter(t, i - 1))]]
  BY ContentsInSlots
<1>4. ContentsOf(e, Offset(h), Offset(t)) = ContentsOf(d, Offset(h), Offset(t))
  BY <1>1, <1>2, <1>3
<1> QED
  BY <1>4 DEF e

(* Publishing the slot at head appends what it holds.                      *)
LEMMA PublishAppends ==
    ASSUME NEW h \in SlotSet, NEW t \in SlotSet, NEW d, SuccSlot(h) # t
    PROVE  ContentsOf(d, Offset(SuccSlot(h)), Offset(t))
             = Append(ContentsOf(d, Offset(h), Offset(t)), d[Offset(h)])
<1> DEFINE n == Dist(h, t)
           c == [i \in 1..n |-> d[Offset(SlotAfter(t, i - 1))]]
<1>1. SuccSlot(h) \in SlotSet
  BY NextOffsetIsSuccessor
<1>2. n \in Nat /\ Dist(SuccSlot(h), t) = n + 1 /\ SlotAfter(t, n) = h
  BY SlotArithmetic, ContentsInSlots, CapacityIsWhole
<1>3. ContentsOf(d, Offset(SuccSlot(h)), Offset(t))
        = [i \in 1..(n + 1) |-> d[Offset(SlotAfter(t, i - 1))]]
  BY <1>1, <1>2, ContentsInSlots
<1>4. ContentsOf(d, Offset(h), Offset(t)) = c
  BY ContentsInSlots
<1>5. Append(c, d[Offset(h)])
        = [i \in 1..(n + 1) |-> IF i = n + 1 THEN d[Offset(h)] ELSE c[i]]
  <2>1. c \in Seq({d[Offset(k)] : k \in SlotSet})
    <3>1. \A i \in 1..n : SlotAfter(t, i - 1) \in SlotSet
      <4> TAKE i \in 1..n
      <4>1. i - 1 \in 0..(Slots - 1)
        BY ContentsInSlots, CapacityIsWhole
      <4> QED BY <4>1, SlotOfContents
    <3> QED BY <1>2, <3>1
  <2>2. Len(c) = n
    BY <1>2
  <2>3. d[Offset(h)] \in {d[Offset(k)] : k \in SlotSet}
    OBVIOUS
  <2> HIDE DEF c
  <2> QED BY <2>1, <2>2, <2>3, AppendEntries
<1>6. ASSUME NEW i \in 1..(n + 1)
      PROVE  d[Offset(SlotAfter(t, i - 1))]
               = IF i = n + 1 THEN d[Offset(h)] ELSE c[i]
  BY <1>2
<1> QED
  BY <1>3, <1>4, <1>5, <1>6, Zenon

(* Popping removes the oldest element, which is the one at tail.           *)
LEMMA PopRemovesFirst ==
    ASSUME NEW h \in SlotSet, NEW t \in SlotSet, NEW d, h # t
    PROVE  LET c == ContentsOf(d, Offset(h), Offset(t)) IN
           /\ c # << >>
           /\ Head(c) = d[Offset(t)]
           /\ c[1] = d[Offset(t)]
           /\ ContentsOf(d, Offset(h), Offset(SuccSlot(t))) = Tail(c)
<1> DEFINE n == Dist(h, t)
           c == [i \in 1..n |-> d[Offset(SlotAfter(t, i - 1))]]
<1>1. SuccSlot(t) \in SlotSet
  BY NextOffsetIsSuccessor
<1>2. /\ n \in Nat /\ n # 0 /\ n \in 0..(Slots - 1)
      /\ Dist(h, SuccSlot(t)) = n - 1 /\ SlotAfter(t, 0) = t
  BY SlotArithmetic, ContentsInSlots, CapacityIsWhole
<1>3. ContentsOf(d, Offset(h), Offset(SuccSlot(t)))
        = [i \in 1..(n - 1) |-> d[Offset(SlotAfter(SuccSlot(t), i - 1))]]
  BY <1>1, <1>2, ContentsInSlots
<1>4. ContentsOf(d, Offset(h), Offset(t)) = c
  BY ContentsInSlots
<1>5. c \in Seq({d[Offset(k)] : k \in SlotSet}) /\ Len(c) = n
  <2>1. \A i \in 1..n : SlotAfter(t, i - 1) \in SlotSet
    <3> TAKE i \in 1..n
    <3>1. i - 1 \in 0..(Slots - 1)
      BY <1>2, CapacityIsWhole
    <3> QED BY <3>1, SlotOfContents
  <2> QED BY <1>2, <2>1
<1>6. Tail(c) = [i \in 1..(n - 1) |-> c[i + 1]]
  <2> HIDE DEF c
  <2> QED BY <1>2, <1>5, TailEntries
<1>7. ASSUME NEW i \in 1..(n - 1)
      PROVE  d[Offset(SlotAfter(SuccSlot(t), i - 1))] = c[i + 1]
  <2>1. i - 1 \in 0..(Slots - 2) /\ (i - 1) + 1 = i /\ (i + 1) - 1 = i /\ i + 1 \in 1..n
    BY <1>2, CapacityIsWhole
  <2>2. SlotAfter(SuccSlot(t), i - 1) = SlotAfter(t, i)
    BY <2>1, SlotArithmetic
  <2> QED BY <2>1, <2>2
<1>8. c # << >> /\ c[1] = d[Offset(t)] /\ Head(c) = d[Offset(t)]
  <2>1. c[1] = d[Offset(t)]
    BY <1>2
  <2> HIDE DEF c
  <2> QED BY <1>2, <1>5, <2>1, TailEntries
<1>9. ContentsOf(d, Offset(h), Offset(SuccSlot(t))) = Tail(c)
  <2> HIDE DEF c
  <2> QED BY <1>3, <1>6, <1>7
<1> HIDE DEF c
<1> QED
  BY <1>4, <1>8, <1>9
-----------------------------------------------------------------------------
(* Each action preserves the inductive invariant.  The contents change     *)
(* only in Publish and Pop.                                                *)
LEMMA RingStep == RingInv /\ [Next]_vars => RingInv'
<1> SUFFICES ASSUME RingInv, [Next]_vars PROVE RingInv'
  OBVIOUS
<1> USE DEF RingInv
<1>1. PICK h \in SlotSet, t \in SlotSet : head = Offset(h) /\ tail = Offset(t)
  BY HeadAndTailSlots
<1>2. /\ NextOffset(head) = Offset(SuccSlot(h)) /\ SuccSlot(h) \in SlotSet
      /\ NextOffset(tail) = Offset(SuccSlot(t)) /\ SuccSlot(t) \in SlotSet
  BY <1>1, NextOffsetIsSuccessor
<1>3. \A k \in SlotSet : Offset(k) \in Offsets
  BY DEF SlotSet, Offsets
<1>4. \A j, k \in SlotSet : Offset(j) = Offset(k) <=> j = k
  BY CapacityIsWhole, OffsetOrder DEF SlotSet
<1>5. ASSUME NEW e \in Elements, EmplaceFull(e) PROVE RingInv'
  BY <1>5, Zenon DEF EmplaceFull, consumerVars, TypeOK, Nonempty, Room, Filled,
              Complete, Contents, Shown
<1>6. ASSUME NEW e \in Elements, EmplaceStart(e) PROVE RingInv'
  BY <1>6 DEF EmplaceStart, consumerVars, TypeOK, Nonempty, Room, Filled,
              Complete, Contents, Shown
<1>7. ASSUME CopyStart PROVE RingInv'
  <2>1. Contents' = Contents
    BY <1>1, <1>7, FillKeepsContents, Zenon DEF CopyStart, Contents, TypeOK
  <2>2. Shown'
    BY <1>7, <1>1 DEF CopyStart, consumerVars, Shown, Nonempty, TypeOK
  <2>3. TypeOK'
    BY <1>7, JunkAssumption DEF CopyStart, consumerVars, TypeOK
  <2> QED
    BY <1>7, <2>1, <2>2, <2>3
    DEF CopyStart, consumerVars, Nonempty, Room, Filled, Complete
<1>8. ASSUME CopyEnd PROVE RingInv'
  <2>1. Contents' = Contents
    BY <1>1, <1>8, FillKeepsContents, Zenon DEF CopyEnd, Contents, TypeOK
  <2>2. Shown'
    BY <1>8, <1>1 DEF CopyEnd, consumerVars, Shown, Nonempty, TypeOK
  <2>3. TypeOK' /\ Filled'
    BY <1>8 DEF CopyEnd, consumerVars, TypeOK, Filled
  <2> QED
    BY <1>8, <2>1, <2>2, <2>3
    DEF CopyEnd, consumerVars, Nonempty, Room, Complete
<1>9. ASSUME Publish PROVE RingInv'
  <2>1. SuccSlot(h) # t /\ data[Offset(h)] \in Elements
    BY <1>1, <1>2, <1>4, <1>9 DEF Publish, Room, Filled, TypeOK
  <2>2. Complete'
    <3>1. Dist(SuccSlot(h), t) = Dist(h, t) + 1 /\ SlotAfter(t, Dist(h, t)) = h
      BY <2>1, SlotArithmetic
    <3>2. Dist(h, t) \in Nat
      BY ContentsInSlots, CapacityIsWhole
    <3>3. \A i \in 0..(Dist(h, t) - 1) : data[Offset(SlotAfter(t, i))] \in Elements
      BY <1>1, CompleteInSlots DEF Complete, Contents
    <3>4. \A i \in 0..(Dist(SuccSlot(h), t) - 1) :
            data[Offset(SlotAfter(t, i))] \in Elements
      BY <2>1, <3>1, <3>2, <3>3
    <3>5. /\ head' = Offset(SuccSlot(h)) /\ tail' = Offset(t) /\ data' = data
      BY <1>1, <1>2, <1>9 DEF Publish
    <3> QED
      BY <1>2, <3>4, <3>5, CompleteInSlots DEF Complete, Contents
  <2>3. Nonempty'
    BY <1>1, <1>2, <1>4, <1>9, <2>1 DEF Publish, consumerVars, Nonempty
  <2> QED
    BY <1>2, <1>3, <1>9, <2>2, <2>3
    DEF Publish, consumerVars, TypeOK, Room, Filled, Shown
<1>10. ASSUME IsEmpty PROVE RingInv'
  BY <1>10 DEF IsEmpty, producerVars, TypeOK, Nonempty, Room, Filled,
               Complete, Contents, Shown
<1>11. ASSUME FrontNothing PROVE RingInv'
  BY <1>11 DEF FrontNothing, producerVars, TypeOK, Nonempty, Room, Filled,
               Complete, Contents, Shown
<1>12. ASSUME Front PROVE RingInv'
  BY <1>12 DEF Front, producerVars, TypeOK, Nonempty, Room, Filled,
               Complete, Contents, Shown
<1>13. ASSUME Read PROVE RingInv'
  BY <1>13 DEF Read, producerVars, TypeOK, Nonempty, Room, Filled,
               Complete, Contents, Shown
<1>14. ASSUME Pop PROVE RingInv'
  <2>1. h # t
    BY <1>1, <1>14 DEF Pop, Nonempty
  <2>2. /\ head' = Offset(h) /\ tail' = Offset(SuccSlot(t)) /\ data' = data
    BY <1>1, <1>2, <1>14 DEF Pop
  <2>3. Complete'
    <3>1. /\ Dist(h, SuccSlot(t)) = Dist(h, t) - 1
          /\ \A i \in 0..(Slots - 2) : SlotAfter(SuccSlot(t), i) = SlotAfter(t, i + 1)
      BY <2>1, SlotArithmetic
    <3>2. Dist(h, t) \in 0..(Slots - 1) /\ Slots \in Nat
      BY ContentsInSlots, CapacityIsWhole
    <3>3. \A i \in 0..(Dist(h, t) - 1) : data[Offset(SlotAfter(t, i))] \in Elements
      BY <1>1, CompleteInSlots DEF Complete, Contents
    <3>4. ASSUME NEW i \in 0..(Dist(h, SuccSlot(t)) - 1)
          PROVE  data[Offset(SlotAfter(SuccSlot(t), i))] \in Elements
      <4>1. i \in 0..(Slots - 2) /\ i + 1 \in 0..(Dist(h, t) - 1)
        BY <3>1, <3>2
      <4> QED BY <3>1, <3>3, <4>1
    <3> QED
      BY <1>2, <2>2, <3>4, CompleteInSlots DEF Complete, Contents
  <2>4. Room'
    BY <1>1, <1>2, <1>4, <1>14, <2>1, <2>2, SlotArithmetic
    DEF Pop, producerVars, Room
  <2> QED
    BY <1>2, <1>3, <1>14, <2>3, <2>4
    DEF Pop, producerVars, TypeOK, Nonempty, Filled, Shown
<1>15. ASSUME UNCHANGED vars PROVE RingInv'
  BY <1>15 DEF vars, TypeOK, Nonempty, Room, Filled, Complete, Contents, Shown
<1> QED
  BY <1>5, <1>6, <1>7, <1>8, <1>9, <1>10, <1>11, <1>12, <1>13, <1>14, <1>15
  DEF Next, Producer, Consumer
-----------------------------------------------------------------------------
(* RingInv holds in every reachable state.                                 *)
THEOREM RingInvariant == Spec => []RingInv
  BY InitRing, RingStep, PTL DEF Spec

(* Head and tail are always offsets of whole slots, for every buffer size  *)
(* atomic_ring_buffer_new is given.                                        *)
THEOREM RingTypeCorrect == Spec => []TypeOK
<1>1. RingInv => TypeOK
  BY DEF RingInv
<1> QED
  BY <1>1, RingInvariant, PTL

(* emplace never copies into the slot a consumer holds a pointer to.       *)
THEOREM ReadersAreNotOverwritten == Spec => []NoOverwriteWhileReading
<1>1. RingInv => NoOverwriteWhileReading
  BY DEF RingInv, Nonempty, NoOverwriteWhileReading
<1> QED
  BY <1>1, RingInvariant, PTL

(* front does not return NULL once is_empty has answered false.            *)
THEOREM FrontIsNotNull == Spec => []FrontAfterIsEmptyIsNotNull
<1>1. RingInv => FrontAfterIsEmptyIsNotNull
  BY DEF RingInv, FrontAfterIsEmptyIsNotNull
<1> QED
  BY <1>1, RingInvariant, PTL

(* The element read through front is whole, and the oldest in the ring.    *)
THEOREM OldestElementIsRead == Spec => []ReadsOldestElement
<1>1. RingInv => ReadsOldestElement
  <2> SUFFICES ASSUME RingInv, cpc = "read"
               PROVE  /\ received \in Elements
                      /\ Contents # << >>
                      /\ received = Contents[1]
    BY DEF ReadsOldestElement
  <2>1. PICK h \in SlotSet, t \in SlotSet : head = Offset(h) /\ tail = Offset(t)
    BY HeadAndTailSlots DEF RingInv
  <2>2. h # t
    BY <2>1 DEF RingInv, Nonempty
  <2>3. Contents # << >> /\ Contents[1] = data[tail]
    BY <2>1, <2>2, PopRemovesFirst DEF Contents
  <2>4. data[tail] \in Elements
    <3>1. Dist(h, t) \in Nat /\ Dist(h, t) # 0 /\ SlotAfter(t, 0) = t
      BY <2>2, SlotArithmetic, ContentsInSlots, CapacityIsWhole
    <3>2. \A i \in 0..(Dist(h, t) - 1) : data[Offset(SlotAfter(t, i))] \in Elements
      BY <2>1, CompleteInSlots DEF RingInv, Complete, Contents
    <3> QED BY <2>1, <3>1, <3>2
  <2> QED
    BY <2>3, <2>4 DEF RingInv, Shown
<1> QED
  BY <1>1, RingInvariant, PTL
-----------------------------------------------------------------------------
(* Every step of the ring is a step of the bounded queue or changes        *)
(* nothing in it.                                                          *)
LEMMA FifoStep ==
    ASSUME RingInv, [Next]_vars
    PROVE  [Fifo!FifoNext]_(Fifo!fifoVars)
<1> USE DEF RingInv
<1>1. PICK h \in SlotSet, t \in SlotSet : head = Offset(h) /\ tail = Offset(t)
  BY HeadAndTailSlots
<1>2. /\ NextOffset(head) = Offset(SuccSlot(h)) /\ SuccSlot(h) \in SlotSet
      /\ NextOffset(tail) = Offset(SuccSlot(t)) /\ SuccSlot(t) \in SlotSet
  BY <1>1, NextOffsetIsSuccessor
<1>3. \A j, k \in SlotSet : Offset(j) = Offset(k) <=> j = k
  BY CapacityIsWhole, OffsetOrder DEF SlotSet
<1>4. /\ Len(Contents) = Dist(h, t) /\ Dist(h, t) \in 0..(Slots - 1)
      /\ (Contents = << >>) <=> (h = t)
  <2>1. /\ Contents = [i \in 1..Dist(h, t) |-> data[Offset(SlotAfter(t, i - 1))]]
        /\ Dist(h, t) \in 0..(Slots - 1)
    BY <1>1, ContentsInSlots DEF Contents
  <2>2. Dist(h, t) \in Nat
    BY <2>1, CapacityIsWhole
  <2>3. Len(Contents) = Dist(h, t)
    BY <2>1, <2>2
  <2>4. (h = t) <=> (Dist(h, t) = 0)
    BY SlotArithmetic
  <2>5. Contents = << >> <=> Dist(h, t) = 0
    BY <2>1, <2>2
  <2> QED
    BY <2>1, <2>3, <2>4, <2>5
<1>5. ASSUME NEW e \in Elements, EmplaceFull(e) PROVE Fifo!Refuse
  <2>1. SuccSlot(h) = t
    BY <1>1, <1>2, <1>3, <1>5, Zenon DEF EmplaceFull
  <2>2. Len(Contents) = Slots - 1
    BY <1>4, <2>1, SlotArithmetic
  <2> QED
    BY <1>5, <2>2 DEF EmplaceFull, consumerVars, Contents, Fifo!Refuse
<1>6. ASSUME NEW e \in Elements, EmplaceStart(e) PROVE UNCHANGED Fifo!fifoVars
  BY <1>6 DEF EmplaceStart, consumerVars, Contents, Fifo!fifoVars
<1>7. ASSUME CopyStart PROVE UNCHANGED Fifo!fifoVars
  <2>1. Contents' = Contents
    BY <1>1, <1>7, FillKeepsContents, Zenon DEF CopyStart, Contents, TypeOK
  <2> QED
    BY <1>7, <2>1 DEF CopyStart, consumerVars, Fifo!fifoVars
<1>8. ASSUME CopyEnd PROVE UNCHANGED Fifo!fifoVars
  <2>1. Contents' = Contents
    BY <1>1, <1>8, FillKeepsContents, Zenon DEF CopyEnd, Contents, TypeOK
  <2> QED
    BY <1>8, <2>1 DEF CopyEnd, consumerVars, Fifo!fifoVars
<1>9. ASSUME Publish PROVE Fifo!Put(elem)
  <2>1. SuccSlot(h) # t /\ data[Offset(h)] = elem
    BY <1>1, <1>2, <1>3, <1>9 DEF Publish, Room, Filled
  <2>2. Len(Contents) < Slots - 1
    BY <1>4, <2>1, SlotArithmetic, CapacityIsWhole
  <2>3. Contents' = Append(Contents, elem)
    BY <1>1, <1>2, <1>9, <2>1, PublishAppends DEF Publish, Contents
  <2> QED
    BY <1>9, <2>2, <2>3 DEF Publish, consumerVars, Fifo!Put
<1>10. ASSUME IsEmpty PROVE UNCHANGED Fifo!fifoVars
  BY <1>10 DEF IsEmpty, producerVars, Contents, Fifo!fifoVars
<1>11. ASSUME FrontNothing PROVE Fifo!PeekNothing
  BY <1>1, <1>3, <1>4, <1>11, Zenon DEF FrontNothing, producerVars, Contents, Fifo!PeekNothing
<1>12. ASSUME Front PROVE UNCHANGED Fifo!fifoVars
  BY <1>12 DEF Front, producerVars, Contents, Fifo!fifoVars
<1>13. ASSUME Read PROVE Fifo!Peek
  <2>1. h # t
    BY <1>1, <1>13 DEF Read, Nonempty
  <2>2. Contents # << >> /\ Head(Contents) = data[tail]
    BY <1>1, <2>1, PopRemovesFirst DEF Contents
  <2>3. Contents' = Contents
    BY <1>13 DEF Read, Contents
  <2> QED
    BY <1>13, <2>2, <2>3 DEF Read, producerVars, Fifo!Peek
<1>14. ASSUME Pop PROVE Fifo!Remove
  <2>1. h # t
    BY <1>1, <1>14 DEF Pop, Nonempty
  <2>2. /\ Contents # << >> /\ Head(Contents) = data[tail]
        /\ Contents' = Tail(Contents)
    BY <1>1, <1>2, <1>14, <2>1, PopRemovesFirst DEF Pop, Contents
  <2>3. received = Head(Contents)
    BY <1>14, <2>2 DEF Pop, Shown
  <2> QED
    BY <1>14, <2>2, <2>3 DEF Pop, producerVars, Fifo!Remove
<1>15. ASSUME UNCHANGED vars PROVE UNCHANGED Fifo!fifoVars
  BY <1>15 DEF vars, Contents, Fifo!fifoVars
<1>16. elem \in Elements
  BY DEF TypeOK
<1> QED
  BY <1>5, <1>6, <1>7, <1>8, <1>9, <1>10, <1>11, <1>12, <1>13, <1>14, <1>15, <1>16
  DEF Next, Producer, Consumer, Fifo!FifoNext

(* The ring implements a first-in first-out queue that holds one element   *)
(* less than the ring has slots.                                           *)
THEOREM RingImplementsFifo == Spec => ImplementsFifo
<1>1. Init => Fifo!FifoInit
  <2> SUFFICES ASSUME Init PROVE Contents = << >>
    BY Zenon DEF Init, Fifo!FifoInit
  <2>1. 0 \in SlotSet /\ Offset(0) = 0
    BY CapacityIsWhole, SizeAssumption DEF SlotSet, Offset
  <2>2. Dist(0, 0) = 0
    BY DEF Dist
  <2>3. Contents = [i \in 1..0 |-> data[Offset(SlotAfter(0, i - 1))]]
    BY <2>1, <2>2, ContentsInSlots DEF Init, Contents
  <2> QED
    BY <2>3
<1>2. RingInv /\ [Next]_vars => [Fifo!FifoNext]_(Fifo!fifoVars)
  BY FifoStep
<1> QED
  BY <1>1, <1>2, RingInvariant, PTL DEF Spec, ImplementsFifo, Fifo!FifoSpec
=============================================================================
