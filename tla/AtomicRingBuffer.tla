-------------------------- MODULE AtomicRingBuffer --------------------------
(***************************************************************************)
(* The ring buffer of kernel/atomic-ring-buffer.c (and its user space twin *)
(* usr/libmanticore/src/atomic-ring-buffer.c) at the grain of its memory   *)
(* accesses.  The producer and the consumer run concurrently, in two       *)
(* address spaces or in an interrupt handler and the code it interrupts.   *)
(*                                                                         *)
(* head and tail are byte offsets into the data area, as in the code.  Only *)
(* the producer writes head and only the consumer writes tail, so that a   *)
(* side's load of its own offset is folded into its next shared access.    *)
(* The copy of an element is not atomic: its slot holds Junk meanwhile.    *)
(***************************************************************************)
EXTENDS Integers, Sequences

CONSTANTS BufSize,      \* bytes of the buffer given to atomic_ring_buffer_new
          HeaderSize,   \* sizeof(struct atomic_ring_buffer)
          ElementSize,  \* bytes of an element
          Elements,     \* the elements that may be appended
          Junk,         \* the content of a slot that holds no whole element
          Nothing       \* the NULL that front returns

VARIABLES head, tail,   \* the two shared offsets
          data,         \* the element stored at each offset of the data area
          ppc,          \* where the producer is inside emplace
          elem,         \* the argument of the emplace under way
          accepted,     \* what the last emplace returned
          cpc,          \* where the consumer is between is_empty and pop
          received      \* what the consumer read through front

producerVars == <<ppc, elem, accepted>>
consumerVars == <<cpc, received>>
vars == <<head, tail, data, ppc, elem, accepted, cpc, received>>

(* atomic_ring_buffer_new: whole elements only.                            *)
Capacity ==
    LET bytes == BufSize - HeaderSize IN bytes - (bytes % ElementSize)

Slots == (BufSize - HeaderSize) \div ElementSize

ASSUME SizeAssumption ==
    /\ BufSize \in Nat
    /\ HeaderSize \in Nat
    /\ ElementSize \in Nat \ {0}
    /\ BufSize >= HeaderSize + ElementSize

ASSUME JunkAssumption == Junk \notin Elements /\ Nothing \notin Elements

Offset(k) == ElementSize * k
Offsets == {Offset(k) : k \in 0..(Slots - 1)}

(* The offset after o, as both emplace and pop compute it.                 *)
NextOffset(o) ==
    IF o + ElementSize = Capacity THEN 0 ELSE o + ElementSize

Init ==
    /\ head = 0 /\ tail = 0
    /\ data = [o \in Offsets |-> Junk]
    /\ ppc = "idle" /\ elem \in Elements /\ accepted = FALSE
    /\ cpc = "idle" /\ received = Nothing
-----------------------------------------------------------------------------
(* atomic_ring_buffer_emplace: compare with tail, copy, publish.           *)
EmplaceFull(e) ==
    /\ ppc = "idle"
    /\ NextOffset(head) = tail
    /\ accepted' = FALSE
    /\ elem' = e
    /\ UNCHANGED <<head, tail, data, ppc, consumerVars>>

(* Faulty: no comparison with tail.                                        *)
EmplaceStartUnchecked(e) ==
    /\ ppc = "idle"
    /\ elem' = e
    /\ ppc' = "room"
    /\ UNCHANGED <<head, tail, data, accepted, consumerVars>>

EmplaceStart(e) ==
    /\ ppc = "idle"
    /\ NextOffset(head) # tail
    /\ elem' = e
    /\ ppc' = "room"
    /\ UNCHANGED <<head, tail, data, accepted, consumerVars>>

CopyStart ==
    /\ ppc = "room"
    /\ data' = [data EXCEPT ![head] = Junk]
    /\ ppc' = "copying"
    /\ UNCHANGED <<head, tail, elem, accepted, consumerVars>>

CopyEnd ==
    /\ ppc = "copying"
    /\ data' = [data EXCEPT ![head] = elem]
    /\ ppc' = "copied"
    /\ UNCHANGED <<head, tail, elem, accepted, consumerVars>>

Publish ==
    /\ ppc = "copied"
    /\ head' = NextOffset(head)
    /\ accepted' = TRUE
    /\ ppc' = "idle"
    /\ UNCHANGED <<tail, data, elem, consumerVars>>
-----------------------------------------------------------------------------
(* atomic_ring_buffer_is_empty, as epoll_wait calls it before front.       *)
IsEmpty ==
    /\ cpc = "idle"
    /\ cpc' = IF head = tail THEN "idle" ELSE "nonempty"
    /\ UNCHANGED <<head, tail, data, received, producerVars>>

(* atomic_ring_buffer_front.  IOQueue::pop calls it first and takes NULL   *)
(* for an answer; epoll_wait calls it after is_empty and dereferences what *)
(* it returns.                                                             *)
FrontNothing ==
    /\ cpc \in {"idle", "nonempty"}
    /\ head = tail
    /\ received' = Nothing
    /\ cpc' = IF cpc = "idle" THEN "idle" ELSE "null"
    /\ UNCHANGED <<head, tail, data, producerVars>>

(* Faulty: a head that has wrapped around is taken for an empty ring.      *)
FrontNotWrapped ==
    /\ cpc \in {"idle", "nonempty"}
    /\ head > tail
    /\ cpc' = "front"
    /\ UNCHANGED <<head, tail, data, received, producerVars>>

Front ==
    /\ cpc \in {"idle", "nonempty"}
    /\ head # tail
    /\ cpc' = "front"
    /\ UNCHANGED <<head, tail, data, received, producerVars>>

(* The consumer reads the element through the pointer front returned.      *)
Read ==
    /\ cpc = "front"
    /\ received' = data[tail]
    /\ cpc' = "read"
    /\ UNCHANGED <<head, tail, data, producerVars>>

(* Faulty: the slot is given back before the element has been read.        *)
PopEarly ==
    /\ cpc \in {"front", "read"}
    /\ tail' = NextOffset(tail)
    /\ cpc' = "idle"
    /\ UNCHANGED <<head, data, received, producerVars>>

(* atomic_ring_buffer_pop.                                                 *)
Pop ==
    /\ cpc = "read"
    /\ tail' = NextOffset(tail)
    /\ cpc' = "idle"
    /\ UNCHANGED <<head, data, received, producerVars>>
-----------------------------------------------------------------------------
Producer ==
    \/ \E e \in Elements : EmplaceFull(e) \/ EmplaceStart(e)
    \/ CopyStart \/ CopyEnd \/ Publish

Consumer == IsEmpty \/ FrontNothing \/ Front \/ Read \/ Pop

Next == Producer \/ Consumer

Spec == Init /\ [][Next]_vars

(* The producer may stop appending, but neither side stops inside a call,  *)
(* and the consumer comes back for more.                                   *)
Fairness ==
    /\ WF_vars(CopyStart \/ CopyEnd \/ Publish)
    /\ WF_vars(Front \/ Read \/ Pop)

FairSpec == Spec /\ Fairness
-----------------------------------------------------------------------------
(* The elements between tail and head, oldest first.                       *)
Wrap(o) == IF o >= Capacity THEN o - Capacity ELSE o

UsedBetween(h, t) == Wrap(h + Capacity - t) \div ElementSize

ContentsOf(d, h, t) ==
    [i \in 1..UsedBetween(h, t) |-> d[Wrap(t + Offset(i - 1))]]

Contents == ContentsOf(data, head, tail)

(* Every variable has its type; in particular head and tail are offsets of *)
(* whole slots, so that `next == capacity` in emplace and pop is the right *)
(* test for the end of the data area.                                      *)
TypeOK ==
    /\ head \in Offsets
    /\ tail \in Offsets
    /\ data \in [Offsets -> Elements \union {Junk}]
    /\ ppc \in {"idle", "room", "copying", "copied"}
    /\ elem \in Elements
    /\ accepted \in BOOLEAN
    /\ cpc \in {"idle", "nonempty", "front", "read", "null"}
    /\ received \in Elements \union {Junk, Nothing}

(* emplace's memcpy never writes the slot whose pointer front has handed   *)
(* out and pop has not yet given back, however the two sides interleave.   *)
NoOverwriteWhileReading ==
    ppc # "idle" /\ cpc \in {"front", "read"} => head # tail

(* is_empty answering false is still true when front is called, so the     *)
(* pointer epoll_wait dereferences without a test is never NULL.           *)
FrontAfterIsEmptyIsNotNull == cpc # "null"

(* What the consumer reads is a whole element, never a half-copied one,    *)
(* and it is the oldest one in the ring.                                   *)
ReadsOldestElement ==
    cpc = "read" => /\ received \in Elements
                    /\ Contents # << >>
                    /\ received = Contents[1]

(* The ring behaves as a bounded queue: nothing accepted is lost,          *)
(* duplicated or reordered, and emplace returns false only when the ring   *)
(* holds one element less than it has slots.                               *)
Fifo == INSTANCE BoundedFIFO WITH queue <- Contents, Limit <- Slots - 1
ImplementsFifo == Fifo!FifoSpec

(* An element emplace has accepted is eventually read by a consumer that   *)
(* keeps calling front, whatever the producer does next.                   *)
AcceptedIsReceived ==
    \A e \in Elements :
        (\E i \in DOMAIN Contents : Contents[i] = e) ~> (received = e)
=============================================================================
